---- MODULE Spec2Model ----
(***************************************************************************)
(* Batman chatbot: the query router (BatmanChatbot.process_query), its     *)
(* resolvers and the web session (web_app.chat) as a state machine.        *)
(*                                                                         *)
(* Texts are drawn from a catalogue of query frames and subjects; what the *)
(* code asks of a text (substring tests, regular expressions) is recorded  *)
(* in tables next to the keyword lists of the code.  The scores of the     *)
(* similarity library are an input of each query (a vector over the cached *)
(* names).  Confidences are integers in thousandths: 1.0 is 1000.          *)
(***************************************************************************)
EXTENDS Integers, Sequences, FiniteSets, TLC

(***************************************************************************)
(* The store snapshot: rows of the tables the code reads.                  *)
(***************************************************************************)
Kinds == <<"characters", "vehicles", "locations", "storylines", "organizations">>

characters ==
  << [id |-> 1, name |-> "Batman"],
     [id |-> 2, name |-> "Robin_(Dick_Grayson)"],
     [id |-> 3, name |-> "Robin_(Tim_Drake)"],
     [id |-> 4, name |-> "Nightwing"],
     [id |-> 5, name |-> "Batwing"] >>

character_aliases ==
  << [character_id |-> 1, alias |-> "Dark Knight"],
     [character_id |-> 2, alias |-> "Nightwing"],
     [character_id |-> 1, alias |-> "Caped Crusader"],
     [character_id |-> 2, alias |-> "Boy Wonder"],
     [character_id |-> 1, alias |-> "Matches Malone"] >>

vehicles ==
  << [id |-> 1, name |-> "Batmobile"],
     [id |-> 2, name |-> "Batwing"],
     [id |-> 3, name |-> "Batboat"] >>

locations ==
  << [id |-> 1, name |-> "Batcave"],
     [id |-> 2, name |-> "Arkham_Asylum"] >>

storylines ==
  << [id |-> 1, name |-> "Knightfall"] >>

organizations ==
  << [id |-> 1, name |-> "Court_of_Owls"] >>

Table(kind) ==
  CASE kind = "characters" -> characters
    [] kind = "vehicles" -> vehicles
    [] kind = "locations" -> locations
    [] kind = "storylines" -> storylines
    [] kind = "organizations" -> organizations

Range(s) == {s[i] : i \in DOMAIN s}

(***************************************************************************)
(* AdvancedQueryProcessor._build_entity_cache: the rows of each table in   *)
(* table order; the aliases follow the characters, each carrying the id    *)
(* and the name of the character that owns it.                             *)
(***************************************************************************)
CacheRow(r) == [id |-> r.id, name |-> r.name, is_alias |-> FALSE, real_name |-> r.name]

AliasRow(a) ==
  LET owner == CHOOSE c \in Range(characters) : c.id = a.character_id
  IN  [id |-> owner.id, name |-> a.alias, is_alias |-> TRUE, real_name |-> owner.name]

_build_entity_cache ==
  [kind \in Range(Kinds) |->
     IF kind = "characters"
       THEN [i \in 1..Len(characters) |-> CacheRow(characters[i])]
            \o [i \in 1..Len(character_aliases) |-> AliasRow(character_aliases[i])]
       ELSE [i \in 1..Len(Table(kind)) |-> CacheRow(Table(kind)[i])]]

\* a chatbot without a connection has no query processor and no cache
NoCache == [kind \in Range(Kinds) |-> << >>]

(***************************************************************************)
(* State.  The store as the process finds it: "ok", "missing" (no database *)
(* file) or "failing" (its statements raise).  The chatbot: conn ("open",  *)
(* "none" for a chatbot built without a connection, "absent" when no       *)
(* chatbot was built), the entity_cache of its query processor, its        *)
(* conversation_history, and for the properties the last response it gave, *)
(* the query that got it and the number of queries processed.  The web     *)
(* session (ConversationSession): last_numbered_options with, next to it,  *)
(* the kind and id each option was listed with (offered), whether          *)
(* last_mentioned_entity is set, the HTTP status of the last request (0    *)
(* before the first) and the option the last selection picked.  call is    *)
(* the last direct call of a component, by a test runner.                  *)
(***************************************************************************)
VARIABLES store, conn, entity_cache, conversation_history, response, last_query, asked,
          last_numbered_options, offered, last_mentioned_entity, status, selection, call

StoreStates == {"ok", "missing", "failing"}

(***************************************************************************)
(* BatmanChatbot.__init__: connect_database returns False without a        *)
(* connection when the file is missing, and the chatbot is built without   *)
(* processors; when the file is there but its statements raise, the        *)
(* connection stays set and _build_entity_cache raises out of the          *)
(* constructor ("absent").                                                 *)
(***************************************************************************)
BatmanChatbot(db) ==
  IF db = "ok" THEN [conn |-> "open", entity_cache |-> _build_entity_cache]
  ELSE IF db = "missing" THEN [conn |-> "none", entity_cache |-> NoCache]
  ELSE [conn |-> "absent", entity_cache |-> NoCache]

\* the cache of the chatbot that processes a query: chat() replaces a chatbot
\* that has no conversation_intelligence before it calls process_query
CacheInUse == IF conn = "none" THEN BatmanChatbot(store).entity_cache ELSE entity_cache

Names == UNION {{r.name : r \in Range(_build_entity_cache[k])} : k \in Range(Kinds)}

(***************************************************************************)
(* Scores of the similarity library (0..100), one per cached name.  The    *)
(* levels stand for the ranges the code distinguishes: below 50, [50,60),  *)
(* exactly 60, (60,70), 70 and above, and an exact match.                  *)
(***************************************************************************)
Levels == {0, 55, 60, 65, 70, 100}

Vec(n1, l1, n2, l2) ==
  [n \in Names |-> IF n = n1 THEN l1 ELSE IF n = n2 THEN l2 ELSE 0]

Flat(l) == [n \in Names |-> l]

\* the names a text of the catalogue singles out; the other names score with
\* the rest
ScoredNames == Names \ {"Batboat", "Caped Crusader", "Boy Wonder", "Matches Malone"}

\* every name at one level; one name at a level and the rest at 0; two names
\* in [50,60), or one of them an exact match, and the rest at 0
ScoreVectors ==
  {Flat(l) : l \in Levels}
    \cup {Vec(n, l, n, l) : n \in ScoredNames, l \in Levels}
    \cup {Vec(n1, l1, n2, 55) : n1 \in ScoredNames, l1 \in {55, 100}, n2 \in ScoredNames}

(***************************************************************************)
(* fuzzywuzzy process.extract(query, names, limit): the `limit` best       *)
(* scoring names, best first, equal scores in list order.                  *)
(***************************************************************************)
BestPos(sc, names, S) ==
  CHOOSE p \in S : \A r \in S :
    \/ sc[names[p]] > sc[names[r]]
    \/ sc[names[p]] = sc[names[r]] /\ p <= r

RECURSIVE extractFrom(_, _, _, _)
extractFrom(sc, names, S, limit) ==
  IF S = {} \/ limit = 0 THEN << >>
  ELSE LET p == BestPos(sc, names, S)
       IN  << [name |-> names[p], score |-> sc[names[p]]] >>
             \o extractFrom(sc, names, S \ {p}, limit - 1)

extract(sc, names, limit) == extractFrom(sc, names, DOMAIN names, limit)

CacheNames(kind) == [i \in DOMAIN CacheInUse[kind] |-> CacheInUse[kind][i].name]

\* next(entity for name, entity in entity_names if name == match_name)
FirstNamed(kind, match_name) ==
  LET rows == CacheInUse[kind]
      p == CHOOSE i \in DOMAIN rows :
             rows[i].name = match_name /\ \A j \in 1..(i - 1) : rows[j].name # match_name
  IN  rows[p]

(***************************************************************************)
(* What the code's substring tests see in the lower-cased names of the     *)
(* store: the literals of the code's lists that occur in the name, the     *)
(* number of words of name.replace('_', ' ') and of name.split('_').       *)
(***************************************************************************)
NameFacts ==
     "Batman" :> [lits |-> {"bat", "batman"}, words |-> 1, parts |-> 1] @@
     "Robin_(Dick_Grayson)" :> [lits |-> {"(", "robin"}, words |-> 3, parts |-> 3] @@
     "Robin_(Tim_Drake)" :> [lits |-> {"(", "robin"}, words |-> 3, parts |-> 3] @@
     "Nightwing" :> [lits |-> {"nightwing", "wing"}, words |-> 1, parts |-> 1] @@
     "Batwing" :> [lits |-> {"bat", "batwing", "wing"}, words |-> 1, parts |-> 1] @@
     "Dark Knight" :> [lits |-> {}, words |-> 2, parts |-> 1] @@
     "Batmobile" :> [lits |-> {"bat", "batmobile", "mobile"}, words |-> 1, parts |-> 1] @@
     "Batcave" :> [lits |-> {"bat", "batcave"}, words |-> 1, parts |-> 1] @@
     "Arkham_Asylum" :> [lits |-> {"arkham_asylum"}, words |-> 2, parts |-> 2] @@
     "Knightfall" :> [lits |-> {}, words |-> 1, parts |-> 1] @@
     "Court_of_Owls" :> [lits |-> {}, words |-> 3, parts |-> 3] @@
     "Batboat" :> [lits |-> {"bat", "batboat", "boat"}, words |-> 1, parts |-> 1] @@
     "Caped Crusader" :> [lits |-> {}, words |-> 2, parts |-> 1] @@
     "Boy Wonder" :> [lits |-> {}, words |-> 2, parts |-> 1] @@
     "Matches Malone" :> [lits |-> {}, words |-> 2, parts |-> 1]

\* any(lit in name.lower() for lit in list)
NameHasAny(name, list) == NameFacts[name].lits \cap list # {}

(***************************************************************************)
(* AdvancedQueryProcessor._calculate_importance_bonus, in score points     *)
(* (the code's bonus times 100).                                           *)
(***************************************************************************)
main_characters ==
  {"batman", "robin", "joker", "catwoman", "penguin", "riddler", "two_face",
   "harvey_dent", "scarecrow", "poison_ivy", "mr_freeze", "bane", "harley_quinn",
   "ra_s_al_ghul", "alfred", "commissioner_gordon", "batgirl", "nightwing",
   "red_hood", "red_robin"}

main_locations ==
  {"gotham_city", "arkham_asylum", "wayne_manor", "batcave", "gcpd",
   "ace_chemicals", "blackgate_prison"}

main_vehicles == {"batmobile", "batplane", "batwing", "batboat"}

_calculate_importance_bonus(entity_name, entity_type) ==
  IF entity_type = "characters" /\ NameHasAny(entity_name, main_characters) THEN 20
  ELSE IF entity_type = "locations" /\ NameHasAny(entity_name, main_locations) THEN 15
  ELSE IF entity_type = "vehicles" /\ NameHasAny(entity_name, main_vehicles) THEN 15
  ELSE IF NameFacts[entity_name].words <= 2 THEN 5
  ELSE 0

(***************************************************************************)
(* EntityMatch records; NoMatch stands for None.                           *)
(***************************************************************************)
NoMatch ==
  [entity_id |-> 0, entity_type |-> "", name |-> "", confidence |-> 0, match_type |-> "none"]

EntityMatch(row, etype, confidence) ==
  [entity_id |-> row.id, entity_type |-> etype, name |-> row.real_name,
   confidence |-> confidence, match_type |-> IF row.is_alias THEN "alias" ELSE "fuzzy"]

Max(x, y) == IF x >= y THEN x ELSE y

Min(x, y) == IF x <= y THEN x ELSE y

(***************************************************************************)
(* AdvancedQueryProcessor.find_best_entity_match(query, entity_type,       *)
(* threshold): per kind the five best names, those scoring at least        *)
(* max(threshold, 50) become candidates, and a candidate replaces the best *)
(* so far only when its final score is strictly greater.                   *)
(***************************************************************************)
SearchTypes(entity_type) == IF entity_type = "" THEN Kinds ELSE << entity_type >>

Candidates(sc, etype, threshold) ==
  LET candidate(matched_entity, score) ==
        [entity |-> EntityMatch(matched_entity, etype, score * 10),
         final_score |-> score + _calculate_importance_bonus(matched_entity.name, etype)]
      each(kept) ==
        [i \in DOMAIN kept |-> candidate(FirstNamed(etype, kept[i].name), kept[i].score)]
  IN  each(SelectSeq(extract(sc, CacheNames(etype), 5),
                     LAMBDA m : m.score >= Max(threshold, 50)))

RECURSIVE AllCandidates(_, _, _, _)
AllCandidates(sc, types, i, threshold) ==
  IF i > Len(types) THEN << >>
  ELSE Candidates(sc, types[i], threshold) \o AllCandidates(sc, types, i + 1, threshold)

RECURSIVE PickBest(_, _, _, _)
PickBest(cands, i, best_match, best_score) ==
  IF i > Len(cands) THEN best_match
  ELSE IF cands[i].final_score > best_score
         THEN PickBest(cands, i + 1, cands[i].entity, cands[i].final_score)
         ELSE PickBest(cands, i + 1, best_match, best_score)

find_best_entity_match(sc, entity_type, threshold) ==
  PickBest(AllCandidates(sc, SearchTypes(entity_type), 1, threshold), 1, NoMatch, 0)

(***************************************************************************)
(* AdvancedQueryProcessor.find_multiple_entities(query, max_results,       *)
(* threshold): per kind the eight best names, those reaching the threshold *)
(* are boosted by a tenth of the entity's importance, capped at 1.0, then  *)
(* sorted by confidence (stable) and truncated.                            *)
(***************************************************************************)
entity_importance ==
  "Batman" :> 100 @@ "Joker" :> 95 @@ "Robin_(Dick_Grayson)" :> 90 @@
  "Robin_(Tim_Drake)" :> 85 @@ "Robin_(Damian_Wayne)" :> 80 @@
  "Alfred_Pennyworth" :> 85 @@ "Commissioner_Gordon" :> 80 @@ "Nightwing" :> 80 @@
  "Batgirl" :> 75 @@ "Catwoman" :> 80 @@ "Two-Face" :> 70 @@ "Penguin" :> 70 @@
  "Riddler" :> 70 @@ "Bane" :> 75 @@ "Scarecrow" :> 65 @@ "Harley_Quinn" :> 70 @@
  "Poison_Ivy" :> 65 @@ "Batmobile" :> 90 @@ "Batwing" :> 80 @@ "Wayne_Manor" :> 80 @@
  "Gotham_City" :> 90 @@ "Arkham_Asylum" :> 75

importance_boost(name) ==
  IF name \in DOMAIN entity_importance THEN entity_importance[name] ELSE 0

Boosted(sc, etype, threshold) ==
  LET boosted(matched_entity, score) ==
        EntityMatch(matched_entity, etype,
                    Min(score * 10 + importance_boost(matched_entity.name), 1000))
      each(kept) ==
        [i \in DOMAIN kept |-> boosted(FirstNamed(etype, kept[i].name), kept[i].score)]
  IN  each(SelectSeq(extract(sc, CacheNames(etype), 8), LAMBDA m : m.score >= threshold))

RECURSIVE AllBoosted(_, _, _)
AllBoosted(sc, i, threshold) ==
  IF i > Len(Kinds) THEN << >>
  ELSE Boosted(sc, Kinds[i], threshold) \o AllBoosted(sc, i + 1, threshold)

\* list.sort(key=confidence, reverse=True): descending, equal keys keep their order
RECURSIVE SortByConfidence(_, _)
SortByConfidence(matches, S) ==
  IF S = {} THEN << >>
  ELSE LET p == CHOOSE i \in S : \A j \in S :
                  \/ matches[i].confidence > matches[j].confidence
                  \/ matches[i].confidence = matches[j].confidence /\ i <= j
       IN  << matches[p] >> \o SortByConfidence(matches, S \ {p})

Prefix(s, n) == SubSeq(s, 1, Min(n, Len(s)))

find_multiple_entities(sc, max_results, threshold) ==
  LET sorted(matches) == SortByConfidence(matches, DOMAIN matches)
  IN  Prefix(sorted(AllBoosted(sc, 1, threshold)), max_results)

(***************************************************************************)
(* AdvancedQueryProcessor.handle_ambiguous_query.                          *)
(***************************************************************************)
handle_ambiguous_query(sc) ==
  LET result(potential_matches) ==
        [type |-> IF Len(potential_matches) = 0 THEN "no_matches"
                  ELSE IF Len(potential_matches) = 1 THEN "single_match"
                  ELSE "multiple_matches",
         matches |-> potential_matches]
  IN  result(find_multiple_entities(sc, 5, 50))


(***************************************************************************)
(* The catalogue of query texts.  A query is a frame with its subjects     *)
(* filled in, e.g. frame "vs" with a = "batman", b = "nightwing" is the    *)
(* text "batman vs nightwing":                                             *)
(*   bare "{a}", who_is "who is {a}", tell_me_about "tell me about {a}",   *)
(*   where_is "where is {a}", what_does_drive "what does {a} drive",       *)
(*   weapons "{a} weapons", tell_weapons "tell me about {a} weapons",      *)
(*   where_live "where does {a} live", who_drives "who drives {a}",        *)
(*   sidekick "{a} sidekick", enemies_of "enemies of {a}", vs "{a} vs {b}",*)
(*   compare "compare {a} to {b}", difference "difference between {a} and  *)
(*   {b}", against_faster "{a} against {b}? who is faster",                *)
(*   list_all_vehicles "list all vehicles",                                *)
(*   who_is_this_is "who is this is {a}", gear_of "gear of {a} and {b}".   *)
(* Per frame: the keyword literals of the code that occur in the frame's   *)
(* own words, and what each family of regular expressions extracts from    *)
(* the text ("a"/"b": that subject, "junk": other words, "none": the       *)
(* family does not match):                                                 *)
(*   rel      RelationshipProcessor.process_relationship_query             *)
(*   multi    IntelligentSearchEngine.search_multi_entity (every matching  *)
(*            pattern, in order)                                           *)
(*   srel     IntelligentSearchEngine.search_by_relationship               *)
(*   cmp      ConversationIntelligence._parse_comparison_query             *)
(*   crel     ConversationIntelligence._parse_relationship_query           *)
(*   cmulti   ConversationIntelligence._parse_multi_entity_query           *)
(*   veh      character_patterns of find_best_vehicle_match                *)
(*   mention  the first entity pattern of _handle_contextual_followup that *)
(*            matches the text, "" for none                                *)
(***************************************************************************)
FrameFacts ==
  "bare" :> [arity |-> 1, lits |-> {},
      rel |-> <<"none", "none">>, multi |-> <<>>,
      srel |-> <<"none", "none">>, cmp |-> <<"none", "none", "none">>,
      crel |-> <<"none", "none">>, cmulti |-> <<"none", "none">>,
      veh |-> "none", mention |-> ""] @@
  "who_is" :> [arity |-> 1, lits |-> {"who is"},
      rel |-> <<"none", "none">>, multi |-> <<>>,
      srel |-> <<"none", "none">>, cmp |-> <<"none", "none", "none">>,
      crel |-> <<"none", "none">>, cmulti |-> <<"none", "none">>,
      veh |-> "none", mention |-> "who"] @@
  "tell_me_about" :> [arity |-> 1, lits |-> {"tell me about"},
      rel |-> <<"none", "none">>, multi |-> <<>>,
      srel |-> <<"none", "none">>, cmp |-> <<"none", "none", "none">>,
      crel |-> <<"none", "none">>, cmulti |-> <<"none", "none">>,
      veh |-> "none", mention |-> ""] @@
  "where_is" :> [arity |-> 1, lits |-> {"her", "where is"},
      rel |-> <<"none", "none">>, multi |-> <<>>,
      srel |-> <<"none", "none">>, cmp |-> <<"none", "none", "none">>,
      crel |-> <<"none", "none">>, cmulti |-> <<"none", "none">>,
      veh |-> "none", mention |-> "where"] @@
  "what_does_drive" :> [arity |-> 1, lits |-> {"drive", "what do", "what does"},
      rel |-> <<"none", "none">>, multi |-> <<>>,
      srel |-> <<"none", "none">>, cmp |-> <<"none", "none", "none">>,
      crel |-> <<"none", "none">>, cmulti |-> <<"none", "none">>,
      veh |-> "a", mention |-> ""] @@
  "weapons" :> [arity |-> 1, lits |-> {"weapons"},
      rel |-> <<"weapons", "a">>, multi |-> <<>>,
      srel |-> <<"none", "none">>, cmp |-> <<"none", "none", "none">>,
      crel |-> <<"none", "none">>, cmulti |-> <<"none", "none">>,
      veh |-> "none", mention |-> ""] @@
  "tell_weapons" :> [arity |-> 1, lits |-> {"tell me about", "weapons"},
      rel |-> <<"weapons", "junk">>, multi |-> <<>>,
      srel |-> <<"none", "none">>, cmp |-> <<"none", "none", "none">>,
      crel |-> <<"none", "none">>, cmulti |-> <<"none", "none">>,
      veh |-> "none", mention |-> ""] @@
  "where_live" :> [arity |-> 1, lits |-> {"her"},
      rel |-> <<"location", "a">>, multi |-> <<>>,
      srel |-> <<"location", "a">>, cmp |-> <<"none", "none", "none">>,
      crel |-> <<"none", "none">>, cmulti |-> <<"none", "none">>,
      veh |-> "none", mention |-> ""] @@
  "who_drives" :> [arity |-> 1, lits |-> {"drive", "drives"},
      rel |-> <<"none", "none">>, multi |-> <<>>,
      srel |-> <<"usage", "a">>, cmp |-> <<"none", "none", "none">>,
      crel |-> <<"none", "none">>, cmulti |-> <<"none", "none">>,
      veh |-> "none", mention |-> ""] @@
  "sidekick" :> [arity |-> 1, lits |-> {"sidekick"},
      rel |-> <<"none", "none">>, multi |-> <<>>,
      srel |-> <<"none", "none">>, cmp |-> <<"none", "none", "none">>,
      crel |-> <<"none", "none">>, cmulti |-> <<"none", "none">>,
      veh |-> "none", mention |-> ""] @@
  "enemies_of" :> [arity |-> 1, lits |-> {},
      rel |-> <<"none", "none">>, multi |-> <<>>,
      srel |-> <<"none", "none">>, cmp |-> <<"none", "none", "none">>,
      crel |-> <<"enemies", "a">>, cmulti |-> <<"none", "none">>,
      veh |-> "none", mention |-> ""] @@
  "vs" :> [arity |-> 2, lits |-> {"vs"},
      rel |-> <<"none", "none">>, multi |-> <<<<"a", "b">>>>,
      srel |-> <<"none", "none">>, cmp |-> <<"none", "none", "none">>,
      crel |-> <<"none", "none">>, cmulti |-> <<"none", "none">>,
      veh |-> "none", mention |-> ""] @@
  "compare" :> [arity |-> 2, lits |-> {},
      rel |-> <<"none", "none">>, multi |-> <<<<"a", "b">>>>,
      srel |-> <<"none", "none">>, cmp |-> <<"none", "none", "none">>,
      crel |-> <<"none", "none">>, cmulti |-> <<"none", "none">>,
      veh |-> "none", mention |-> ""] @@
  "difference" :> [arity |-> 2, lits |-> {},
      rel |-> <<"none", "none">>, multi |-> <<<<"a", "b">>>>,
      srel |-> <<"none", "none">>, cmp |-> <<"none", "none", "none">>,
      crel |-> <<"none", "none">>, cmulti |-> <<"none", "none">>,
      veh |-> "none", mention |-> ""] @@
  "against_faster" :> [arity |-> 2, lits |-> {"against", "who is"},
      rel |-> <<"none", "none">>, multi |-> <<>>,
      srel |-> <<"none", "none">>, cmp |-> <<"speed", "a", "b">>,
      crel |-> <<"none", "none">>, cmulti |-> <<"none", "none">>,
      veh |-> "none", mention |-> "who"] @@
  "list_all_vehicles" :> [arity |-> 0, lits |-> {"vehicle"},
      rel |-> <<"none", "none">>, multi |-> <<>>,
      srel |-> <<"none", "none">>, cmp |-> <<"none", "none", "none">>,
      crel |-> <<"none", "none">>, cmulti |-> <<"list_all", "vehicles">>,
      veh |-> "none", mention |-> ""] @@
  "who_is_this_is" :> [arity |-> 1, lits |-> {"this", "who is"},
      rel |-> <<"none", "none">>, multi |-> <<>>,
      srel |-> <<"none", "none">>, cmp |-> <<"none", "none", "none">>,
      crel |-> <<"none", "none">>, cmulti |-> <<"none", "none">>,
      veh |-> "none", mention |-> "who is this"] @@
  "gear_of" :> [arity |-> 2, lits |-> {"gear"},
      rel |-> <<"none", "none">>, multi |-> <<>>,
      srel |-> <<"none", "none">>, cmp |-> <<"none", "none", "none">>,
      crel |-> <<"none", "none">>, cmulti |-> <<"none", "none">>,
      veh |-> "none", mention |-> ""]

Frames == DOMAIN FrameFacts

(***************************************************************************)
(* Per subject: the keyword literals that occur in it, the name            *)
(* _find_entity and _exact_name_search look for (title, title_sp), the     *)
(* store names a LIKE '%title%' matches, the store names that contain the  *)
(* subject, and the first row whose description contains the subject.      *)
(***************************************************************************)
Subjects ==
  {"batman", "robin", "nightwing", "dark knight", "batwing", "batmobile", "batboat",
   "batcave", "superman", "metropolis", "zzqx", "it", "who", "where"}

SubjectFacts ==
  "batman" :> [lits |-> {"batman"}, title |-> "Batman", title_sp |-> "Batman",
      like |-> {"Batman"}, in_names |-> {"Batman"},
      desc |-> <<"characters", "Robin_(Dick_Grayson)">>] @@
  "robin" :> [lits |-> {"robin"}, title |-> "Robin", title_sp |-> "Robin",
      like |-> {"Robin_(Dick_Grayson)", "Robin_(Tim_Drake)"}, in_names |-> {"Robin_(Dick_Grayson)", "Robin_(Tim_Drake)"},
      desc |-> <<"characters", "Robin_(Dick_Grayson)">>] @@
  "nightwing" :> [lits |-> {}, title |-> "Nightwing", title_sp |-> "Nightwing",
      like |-> {"Nightwing"}, in_names |-> {"Nightwing"},
      desc |-> <<"none", "">>] @@
  "dark knight" :> [lits |-> {"dark knight"}, title |-> "Dark_Knight", title_sp |-> "Dark Knight",
      like |-> {}, in_names |-> {"Dark Knight"},
      desc |-> <<"none", "">>] @@
  "batwing" :> [lits |-> {"batwing"}, title |-> "Batwing", title_sp |-> "Batwing",
      like |-> {"Batwing"}, in_names |-> {"Batwing"},
      desc |-> <<"none", "">>] @@
  "batmobile" :> [lits |-> {"batmobile"}, title |-> "Batmobile", title_sp |-> "Batmobile",
      like |-> {"Batmobile"}, in_names |-> {"Batmobile"},
      desc |-> <<"none", "">>] @@
  "batboat" :> [lits |-> {"batboat", "boat"}, title |-> "Batboat", title_sp |-> "Batboat",
      like |-> {"Batboat"}, in_names |-> {"Batboat"},
      desc |-> <<"none", "">>] @@
  "batcave" :> [lits |-> {"batcave"}, title |-> "Batcave", title_sp |-> "Batcave",
      like |-> {"Batcave"}, in_names |-> {"Batcave"},
      desc |-> <<"none", "">>] @@
  "superman" :> [lits |-> {"superman"}, title |-> "Superman", title_sp |-> "Superman",
      like |-> {}, in_names |-> {},
      desc |-> <<"none", "">>] @@
  "metropolis" :> [lits |-> {"metropolis"}, title |-> "Metropolis", title_sp |-> "Metropolis",
      like |-> {}, in_names |-> {},
      desc |-> <<"none", "">>] @@
  "zzqx" :> [lits |-> {}, title |-> "Zzqx", title_sp |-> "Zzqx",
      like |-> {}, in_names |-> {},
      desc |-> <<"none", "">>] @@
  "it" :> [lits |-> {"it"}, title |-> "It", title_sp |-> "It",
      like |-> {}, in_names |-> {},
      desc |-> <<"characters", "Batman">>] @@
  "who" :> [lits |-> {}, title |-> "Who", title_sp |-> "Who",
      like |-> {}, in_names |-> {},
      desc |-> <<"characters", "Batman">>] @@
  "where" :> [lits |-> {"her"}, title |-> "Where", title_sp |-> "Where",
      like |-> {}, in_names |-> {},
      desc |-> <<"none", "">>]

(***************************************************************************)
(* Scores of the similarity library for the catalogue's subjects against   *)
(* the store names, in the order of NameOrder: WRatio (process.extract on  *)
(* the cleaned text), the best of ratio, partial_ratio and token_sort_ratio*)
(* (_fuzzy_name_search), and ratio (_calculate_vehicle_score).             *)
(***************************************************************************)
NameOrder ==
  << "Batman", "Robin_(Dick_Grayson)", "Robin_(Tim_Drake)", "Nightwing", "Batwing", "Dark Knight",
     "Batmobile", "Batcave", "Arkham_Asylum", "Knightfall", "Court_of_Owls", "Batboat", "Caped Crusader", "Boy Wonder", "Matches Malone" >>

WRatioOf ==
  "batman" :> <<100, 34, 30, 30, 62, 24, 60, 62, 45, 18, 15, 62, 20, 25, 50>> @@
  "robin" :> <<36, 90, 90, 36, 50, 36, 54, 17, 18, 18, 36, 17, 18, 30, 40>> @@
  "nightwing" :> <<30, 30, 20, 100, 62, 50, 11, 12, 9, 53, 18, 12, 0, 11, 19>> @@
  "dark knight" :> <<100, 34, 30, 30, 62, 24, 60, 62, 45, 18, 15, 62, 20, 25, 50>> @@
  "batwing" :> <<62, 47, 39, 62, 100, 26, 50, 43, 13, 12, 20, 43, 13, 35, 29>> @@
  "batmobile" :> <<60, 30, 32, 22, 50, 20, 100, 50, 27, 21, 27, 50, 20, 32, 43>> @@
  "batboat" :> <<62, 28, 26, 12, 43, 22, 50, 57, 26, 12, 26, 100, 19, 24, 29>> @@
  "batcave" :> <<62, 15, 32, 12, 43, 22, 50, 100, 26, 12, 13, 57, 39, 24, 51>> @@
  "superman" :> <<43, 32, 15, 12, 27, 21, 12, 13, 41, 11, 20, 13, 36, 22, 45>> @@
  "metropolis" :> <<15, 27, 27, 21, 24, 10, 21, 12, 17, 20, 43, 24, 25, 20, 31>> @@
  "zzqx" :> <<0, 0, 0, 0, 0, 0, 0, 0, 0, 0, 0, 0, 0, 0, 0>> @@
  "it" :> <<45, 30, 45, 45, 45, 45, 45, 45, 0, 45, 45, 45, 0, 0, 45>> @@
  "who" :> <<0, 0, 0, 0, 0, 0, 0, 0, 0, 0, 0, 0, 0, 0, 0>> @@
  "where" :> <<0, 0, 0, 0, 0, 0, 0, 0, 0, 0, 0, 0, 0, 0, 0>>



FuzzyOf ==
  "batman" :> <<100, 33, 33, 33, 67, 24, 67, 67, 50, 20, 17, 67, 20, 25, 50>> @@
  "robin" :> <<36, 100, 100, 40, 50, 40, 60, 20, 20, 20, 40, 22, 20, 33, 44>> @@
  "nightwing" :> <<33, 33, 22, 100, 71, 71, 15, 14, 11, 56, 22, 14, 0, 15, 18>> @@
  "dark knight" :> <<24, 36, 38, 71, 33, 100, 22, 22, 36, 75, 18, 22, 29, 20, 24>> @@
  "batwing" :> <<67, 43, 43, 71, 100, 29, 57, 43, 14, 18, 20, 43, 14, 43, 29>> @@
  "batmobile" :> <<67, 33, 33, 25, 57, 22, 100, 50, 33, 31, 33, 57, 22, 33, 43>> @@
  "batboat" :> <<67, 29, 29, 14, 43, 22, 57, 57, 29, 18, 29, 100, 19, 29, 29>> @@
  "batcave" :> <<67, 15, 33, 14, 43, 22, 50, 100, 29, 18, 14, 57, 43, 24, 57>> @@
  "superman" :> <<50, 33, 26, 12, 40, 25, 17, 20, 46, 12, 22, 20, 38, 31, 50>> @@
  "metropolis" :> <<17, 30, 32, 21, 24, 15, 35, 14, 22, 24, 53, 29, 30, 31, 33>> @@
  "zzqx" :> <<0, 0, 0, 0, 0, 0, 0, 0, 0, 0, 0, 0, 0, 0, 0>> @@
  "it" :> <<50, 50, 50, 50, 50, 50, 50, 50, 0, 50, 50, 50, 0, 0, 50>> @@
  "who" :> <<0, 33, 33, 33, 33, 33, 33, 0, 33, 33, 33, 33, 0, 67, 33>> @@
  "where" :> <<0, 20, 22, 22, 22, 25, 25, 25, 20, 20, 25, 0, 44, 44, 40>>

RatioOf ==
  "batman" :> <<100, 23, 17, 27, 62, 24, 53, 62, 32, 12, 11, 62, 20, 25, 50>> @@
  "robin" :> <<36, 40, 45, 29, 50, 25, 43, 17, 11, 13, 22, 17, 11, 13, 21>> @@
  "nightwing" :> <<13, 21, 15, 100, 62, 50, 11, 12, 9, 53, 18, 12, 0, 11, 9>> @@
  "dark knight" :> <<24, 19, 21, 50, 33, 100, 20, 22, 33, 57, 17, 22, 24, 19, 24>> @@
  "batwing" :> <<62, 30, 25, 62, 100, 22, 50, 43, 10, 12, 20, 43, 10, 35, 29>> @@
  "batmobile" :> <<53, 21, 31, 22, 50, 20, 100, 50, 27, 21, 27, 50, 17, 32, 43>> @@
  "batboat" :> <<62, 22, 17, 12, 43, 22, 50, 57, 20, 12, 20, 100, 19, 24, 29>> @@
  "batcave" :> <<62, 15, 25, 12, 43, 22, 50, 100, 20, 12, 10, 57, 29, 24, 48>> @@
  "superman" :> <<43, 14, 8, 12, 27, 21, 12, 13, 29, 11, 10, 13, 36, 22, 27>> @@
  "metropolis" :> <<12, 20, 22, 21, 24, 10, 21, 12, 17, 20, 43, 24, 25, 20, 25>> @@
  "zzqx" :> <<0, 0, 0, 0, 0, 0, 0, 0, 0, 0, 0, 0, 0, 0, 0>> @@
  "it" :> <<25, 9, 21, 36, 22, 31, 18, 22, 0, 33, 13, 22, 0, 0, 12>> @@
  "who" :> <<0, 9, 10, 17, 20, 14, 17, 0, 12, 15, 12, 20, 0, 31, 24>> @@
  "where" :> <<0, 8, 9, 14, 17, 12, 14, 17, 11, 13, 11, 0, 21, 40, 32>>

NamePos(n) == CHOOSE i \in DOMAIN NameOrder : NameOrder[i] = n

ScoresOf(table, s) == [n \in Names |-> table[s][NamePos(n)]]

(***************************************************************************)
(* A query: the frame, its subjects ("" for a slot the frame lacks) and    *)
(* the library's scores of the whole cleaned text against the cached names.*)
(***************************************************************************)
Slot(q, s) == IF s = "a" THEN q.a ELSE IF s = "b" THEN q.b ELSE s

IsSubject(q, s) == s \in {"a", "b"}

QueryLits(q) ==
  FrameFacts[q.frame].lits
    \cup (IF FrameFacts[q.frame].arity >= 1 THEN SubjectFacts[q.a].lits ELSE {})
    \cup (IF FrameFacts[q.frame].arity = 2 THEN SubjectFacts[q.b].lits ELSE {})

\* any(keyword in query.lower() for keyword in list)
HasAny(q, list) == QueryLits(q) \cap list # {}

(***************************************************************************)
(* BatmanResponse.  Confidence in thousandths; source_entities holds ids,  *)
(* source_names the names get_entity_info_direct puts in source_entities.  *)
(* Of the answer text the record keeps what later code reads: whether it   *)
(* contains 'weapons', the entity mention _handle_contextual_followup      *)
(* extracts from it ("" for none), whether it carries the selection prompt *)
(* the web session looks for, and the kind and id of each numbered option  *)
(* it lists (suggestions holds their names).  raised names an exception    *)
(* that left process_query instead of a response ("" for none).            *)
(***************************************************************************)
Names_of(matches) == [k \in DOMAIN matches |-> matches[k].name]

Listing(matches) ==
  [k \in DOMAIN matches |->
     [entity_type |-> matches[k].entity_type, entity_id |-> matches[k].entity_id]]

\* what the explanation of a relationship result says, and the strings it
\* joins into its sentence
NoExplanation == [says |-> "", joined |-> << >>]

\* the "All Associated Locations" part of an answer: the total it states,
\* the numbered names and the number of locations it says are left out
NoLocations == [total |-> 0, numbered |-> << >>, more |-> 0]

BatmanResponse(query_type, confidence, source_entities, matches, weapons, mention) ==
  [query_type |-> query_type, confidence |-> confidence,
   source_entities |-> source_entities, source_names |-> << >>,
   suggestions |-> Names_of(matches), listed |-> Listing(matches),
   weapons |-> weapons, mention |-> mention,
   explanation |-> NoExplanation, arsenal |-> << >>, all_locations |-> NoLocations,
   prompt |-> matches # << >>, raised |-> ""]

Raised(exception) ==
  [query_type |-> "", confidence |-> 0, source_entities |-> << >>, source_names |-> << >>,
   suggestions |-> << >>, listed |-> << >>, weapons |-> FALSE, mention |-> "",
   explanation |-> NoExplanation, arsenal |-> << >>, all_locations |-> NoLocations,
   prompt |-> FALSE, raised |-> exception]

NoResponse == Raised("none")

\* words of a fixed message that no store name matches
JunkMention == "zzqx"

(***************************************************************************)
(* BatmanChatbot._check_batman_scope.                                      *)
(***************************************************************************)
non_batman_heroes ==
  {"superman", "clark kent", "kal-el", "wonder woman", "diana prince", "green lantern",
   "hal jordan", "john stewart", "kyle rayner", "flash", "barry allen", "wally west",
   "aquaman", "arthur curry", "green arrow", "oliver queen", "martian manhunter",
   "j'onn j'onzz", "cyborg", "victor stone", "shazam", "billy batson", "hawkman",
   "carter hall", "atom", "ray palmer", "firestorm", "ronnie raymond"}

non_batman_entities ==
  {"metropolis", "smallville", "daily planet", "lexcorp", "lex corp", "luthorcorp",
   "themyscira", "paradise island", "coast city", "central city", "keystone city",
   "atlantis", "star city", "mount justice", "watchtower", "fortress of solitude",
   "hall of justice"}

batman_terms == {"batman", "bruce wayne", "dark knight", "gotham", "bat-family"}

vehicle_patterns == {"what does", "what vehicles", "what cars", "drives", "rides"}

equipment_patterns == {"gadgets", "weapons", "equipment", "gear", "tools"}

\* "ok", or which of the two refusals is returned
_check_batman_scope(q) ==
  IF HasAny(q, non_batman_heroes \cup non_batman_entities) /\ ~HasAny(q, batman_terms)
    THEN "not_batman"
  ELSE IF HasAny(q, vehicle_patterns \cup equipment_patterns) /\ HasAny(q, non_batman_heroes)
    THEN "not_batman_equipment"
  ELSE "ok"

\* a refusal that claims the confidence of a list of suggestions
out_of_scope_half_confident(scope_check) ==
  BatmanResponse("out_of_scope", 500, << >>, << >>, FALSE,
                 IF scope_check = "not_batman" THEN JunkMention ELSE "")

\* the first refusal reads "... My expertise is focused on ...", the second
\* has no phrase the follow-up patterns match
out_of_scope(scope_check) ==
  BatmanResponse("out_of_scope", 0, << >>, << >>, FALSE,
                 IF scope_check = "not_batman" THEN JunkMention ELSE "")

(***************************************************************************)
(* BatmanChatbot._classify_query: the keyword lists in priority order.     *)
(***************************************************************************)
vehicle_keywords ==
  {"batmobile", "batwing", "batboat", "batcycle", "vehicle", "car", "plane", "boat",
   "drive", "drives"}

location_keywords ==
  {"gotham", "arkham", "wayne manor", "batcave", "where is", "location", "place"}

relationship_keywords == {"relationship", "ally", "enemy", "friend", "vs", "versus", "against"}

sidekick_keywords == {"sidekick", "partner", "robin", "assistant", "helper"}

character_keywords == {"who is", "tell me about", "what about", "character", "person"}

\* _classify_query with the keyword lists in another order: character first
_classify_query_character_first(q) ==
  IF HasAny(q, character_keywords) THEN "character_lookup"
  ELSE IF HasAny(q, vehicle_keywords) THEN "vehicle_lookup"
  ELSE IF HasAny(q, location_keywords) THEN "location_lookup"
  ELSE IF HasAny(q, relationship_keywords) THEN "relationship_query"
  ELSE IF HasAny(q, sidekick_keywords) THEN "sidekick_lookup"
  ELSE "general_search"

_classify_query(q) ==
  IF HasAny(q, vehicle_keywords) THEN "vehicle_lookup"
  ELSE IF HasAny(q, location_keywords) THEN "location_lookup"
  ELSE IF HasAny(q, relationship_keywords) THEN "relationship_query"
  ELSE IF HasAny(q, sidekick_keywords) THEN "sidekick_lookup"
  ELSE IF HasAny(q, character_keywords) THEN "character_lookup"
  ELSE "general_search"

(***************************************************************************)
(* The relationship tables of the store snapshot, and what the code's      *)
(* substring tests see in the descriptions.                                *)
(***************************************************************************)
vehicle_weapons ==
  << [vehicle_id |-> 1, weapon |-> "Machine guns"],
     [vehicle_id |-> 1, weapon |-> "Missiles"] >>

character_locations == << [character_id |-> 1, location_id |-> 1] >>

vehicle_users == << [vehicle_id |-> 1, character_id |-> 1] >>

character_relationships ==
  << [character_id |-> 1, related_character_id |-> 2, relationship_type |-> "ally"] >>

\* vehicle_specifications: max_speed in mph and armor, for the vehicles that have a row
vehicle_specifications == << [vehicle_id |-> 1, max_speed |-> 230, armor |-> "Heavy"] >>

\* characters whose description contains one of weapon_keywords
DescribedWithWeaponKeyword == {"Batwing"}

\* <<table, name>> of the rows whose description contains 'weapons'
DescribedWithWeapons == {<<"vehicles", "Batmobile">>}

NoRow == [id |-> 0, name |-> "", type |-> "none"]

Row(table, r) == [id |-> r.id, name |-> r.name, type |-> table]

\* cursor.fetchone() of a SELECT over one table: the first of the rows that
\* satisfy the WHERE clause
FetchOne(table, satisfying) ==
  LET rows == Table(table)
      hits == {i \in DOMAIN rows : rows[i] \in satisfying}
  IN  IF hits = {} THEN NoRow
      ELSE Row(table, rows[CHOOSE i \in hits : \A j \in hits : i <= j])

\* the first hit of a loop over tables that returns on its first hit
FirstFound(results) ==
  LET hits == {i \in DOMAIN results : results[i].type # "none"}
  IN  IF hits = {} THEN NoRow
      ELSE results[CHOOSE i \in hits : \A j \in hits : i <= j]

\* the catalogue subject an entity's display name reads as, when it is one word
NameSubject(name) ==
  IF \E s \in Subjects : SubjectFacts[s].title = name
    THEN CHOOSE s \in Subjects : SubjectFacts[s].title = name
    ELSE JunkMention

(***************************************************************************)
(* RelationshipProcessor._find_entity: per table the exact name, then      *)
(* LIKE '%name%'.                                                          *)
(***************************************************************************)
FindEntityTables == <<"characters", "vehicles", "locations", "organizations", "storylines">>

FindEntityIn(s, table) ==
  LET exact == FetchOne(table, {r \in Range(Table(table)) : s \in Subjects /\ r.name = SubjectFacts[s].title})
  IN  IF exact.type # "none" THEN exact
      ELSE FetchOne(table, {r \in Range(Table(table)) : s \in Subjects /\ r.name \in SubjectFacts[s].like})

_find_entity(s) ==
  FirstFound([i \in DOMAIN FindEntityTables |-> FindEntityIn(s, FindEntityTables[i])])

(***************************************************************************)
(* RelationshipProcessor.process_weapons_query, process_location_query and *)
(* process_relationship_query: the first family whose pattern matches      *)
(* answers, also when its answer is None.                                  *)
(***************************************************************************)
NoResult ==
  [query_type |-> "none", primary_entity |-> NoRow, related_data |-> << >>,
   explanation |-> NoExplanation, confidence |-> 0]

RelationshipResult(query_type, primary_entity, related_data, explanation, confidence) ==
  [query_type |-> query_type, primary_entity |-> primary_entity,
   related_data |-> related_data, explanation |-> explanation, confidence |-> confidence]

\* SELECT vw.weapon ... WHERE v.id = ?, fetchall()
WeaponsOf(vehicle_id) ==
  LET weapons == SelectSeq(vehicle_weapons, LAMBDA w : w.vehicle_id = vehicle_id)
  IN  [i \in DOMAIN weapons |-> weapons[i].weapon]

\* process_weapons_query without its answer for a vehicle that has no weapon rows
process_weapons_query_rows_only(s) ==
  LET entity == _find_entity(s)
  IN  IF entity.type = "vehicles" /\ WeaponsOf(entity.id) # << >>
        THEN RelationshipResult("weapons", entity, WeaponsOf(entity.id),
                                [says |-> "equipped", joined |-> WeaponsOf(entity.id)], 1000)
      ELSE IF entity.type = "characters" /\ entity.name \in DescribedWithWeaponKeyword
        THEN RelationshipResult("character_weapons", entity, << >>,
                                [says |-> "associated", joined |-> << >>], 700)
      ELSE NoResult

process_weapons_query(s) ==
  LET entity == _find_entity(s)
      weapon_list == WeaponsOf(entity.id)
  IN  IF entity.type = "vehicles"
        THEN IF weapon_list # << >>
               THEN RelationshipResult("weapons", entity, weapon_list,
                                       [says |-> "equipped", joined |-> weapon_list], 1000)
               ELSE RelationshipResult("weapons", entity, << >>,
                                       [says |-> "not_catalogued", joined |-> << >>], 600)
      ELSE IF entity.type = "characters" /\ entity.name \in DescribedWithWeaponKeyword
        THEN RelationshipResult("character_weapons", entity, << >>,
                                [says |-> "associated", joined |-> << >>], 700)
      ELSE NoResult

\* location names in the order of ORDER BY l.name
LocationsByName ==
  <<"Ace_Chemicals", "Arkham_Asylum", "Batcave", "Blackgate_Prison", "Crime_Alley",
    "GCPD_Headquarters", "Gotham_City", "Iceberg_Lounge", "Monarch_Theatre", "Park_Row",
    "Wayne_Manor", "Wayne_Tower">>

\* SELECT l.* ... WHERE cl.character_id = ? ORDER BY l.name, over the
\* locations associated with the character, given in stored order
OrderByName(stored) == SelectSeq(LocationsByName, LAMBDA n : n \in Range(stored))

\* process_location_query once the entity is found to be a character whose
\* associated locations are `stored`
CharacterLocations(entity, stored) ==
  LET location_names == OrderByName(stored)
  IN  IF location_names # << >>
        THEN RelationshipResult("character_locations", entity, location_names,
                                [says |-> "located", joined |-> Prefix(location_names, 5),
                                 ellipsis |-> Len(location_names) > 5,
                                 primary_location |-> location_names[1]],
                                1000)
      ELSE NoResult

process_location_query(s) ==
  LET entity == _find_entity(s)
      rows == SelectSeq(character_locations, LAMBDA cl : cl.character_id = entity.id)
      stored ==
        [i \in DOMAIN rows |->
           (CHOOSE l \in Range(locations) : l.id = rows[i].location_id).name]
  IN  IF entity.type = "characters" THEN CharacterLocations(entity, stored) ELSE NoResult

process_relationship_query(q) ==
  LET rel == FrameFacts[q.frame].rel
  IN  IF rel[1] = "weapons" THEN process_weapons_query(Slot(q, rel[2]))
      ELSE IF rel[1] = "location" THEN process_location_query(Slot(q, rel[2]))
      ELSE NoResult

\* str.title() of the weapon strings of the store
title ==
  "Machine guns" :> "Machine Guns" @@ "Missiles" :> "Missiles"

\* BatmanChatbot._handle_relationship_processor_result: the answer carries
\* the explanation, for weapons a "Detailed Arsenal" of the titled rows, and
\* for several locations the first ten of them, numbered
_handle_relationship_processor_result(result) ==
  [BatmanResponse(result.query_type, result.confidence, << result.primary_entity.id >>, << >>,
                  \/ result.query_type \in {"weapons", "character_weapons"}
                  \/ <<result.primary_entity.type, result.primary_entity.name>>
                       \in DescribedWithWeapons,
                  IF result.query_type = "character_weapons"
                    THEN NameSubject(result.primary_entity.name) ELSE JunkMention)
     EXCEPT !.explanation = result.explanation,
            !.arsenal = IF result.query_type = "weapons"
                          THEN [i \in DOMAIN result.related_data |->
                                  title[result.related_data[i]]]
                        ELSE << >>,
            !.all_locations =
              IF result.query_type = "character_locations" /\ Len(result.related_data) > 1
                THEN [total |-> Len(result.related_data),
                      numbered |-> Prefix(result.related_data, 10),
                      more |-> Max(Len(result.related_data) - 10, 0)]
              ELSE NoLocations]

(***************************************************************************)
(* IntelligentSearchEngine.  SearchResult records; NoSearchResult is None. *)
(***************************************************************************)
NoSearchResult ==
  [entity_id |-> 0, entity_type |-> "none", name |-> "", confidence |-> 0, match_type |-> "none"]

SearchResult(row, confidence, match_type) ==
  [entity_id |-> row.id, entity_type |-> row.type, name |-> row.name,
   confidence |-> confidence, match_type |-> match_type]

\* _exact_name_search: per table name = query.replace(' ', '_').title(), then
\* name = query.title() (no store name is all upper case, so query.upper()
\* matches none)
ExactIn(s, table) ==
  LET first == FetchOne(table, {r \in Range(Table(table)) : r.name = SubjectFacts[s].title})
  IN  IF first.type # "none" THEN first
      ELSE FetchOne(table, {r \in Range(Table(table)) : r.name = SubjectFacts[s].title_sp})

_exact_name_search(s) ==
  LET row == FirstFound([i \in DOMAIN Kinds |-> ExactIn(s, Kinds[i])])
  IN  IF row.type = "none" THEN NoSearchResult ELSE SearchResult(row, 1000, "exact")

\* _full_text_search: the store snapshot has no *_fts tables, every SELECT
\* raises sqlite3.OperationalError and the loop continues to its end
_full_text_search(s) == NoSearchResult

\* _fuzzy_name_search: every row scoring above 0.5 is a candidate, the first
\* candidate with the greatest final score wins and keeps its fuzzy score
FuzzyCandidates ==
  LET rows(i) == [j \in DOMAIN Table(Kinds[i]) |-> Row(Kinds[i], Table(Kinds[i])[j])]
  IN  rows(1) \o rows(2) \o rows(3) \o rows(4) \o rows(5)

_fuzzy_name_search(s) ==
  LET fuzzy_score(r) == FuzzyOf[s][NamePos(r.name)]
      final_score(r) == fuzzy_score(r) + _calculate_importance_bonus(r.name, r.type)
      best_of(rows, candidates) ==
        CHOOSE i \in candidates : \A j \in candidates :
          \/ final_score(rows[i]) > final_score(rows[j])
          \/ final_score(rows[i]) = final_score(rows[j]) /\ i <= j
      best_match(row) == SearchResult(row, fuzzy_score(row) * 10, "fuzzy")
      search(rows, candidates) ==
        IF candidates = {} THEN NoSearchResult
        ELSE best_match(rows[best_of(rows, candidates)])
      among(rows) == search(rows, {i \in DOMAIN rows : fuzzy_score(rows[i]) > 50})
  IN  among(FuzzyCandidates)

\* _description_search: the first table with a description LIKE '%query%'
_description_search(s) ==
  LET desc == SubjectFacts[s].desc
  IN  IF desc[1] = "none" THEN NoSearchResult
      ELSE SearchResult(FetchOne(desc[1], {r \in Range(Table(desc[1])) : r.name = desc[2]}), 600, "description")

search_single_entity(s) ==
  LET first_good(result, fts_result, fuzzy_result, desc_result) ==
        IF result.entity_type # "none" /\ result.confidence > 900 THEN result
        ELSE IF fts_result.entity_type # "none" /\ fts_result.confidence > 800
          THEN fts_result
        ELSE IF fuzzy_result.entity_type # "none" /\ fuzzy_result.confidence > 700
          THEN fuzzy_result
        ELSE IF desc_result.entity_type # "none" THEN desc_result
        ELSE IF result.entity_type # "none" THEN result
        ELSE IF fts_result.entity_type # "none" THEN fts_result
        ELSE fuzzy_result
  IN  IF s \notin Subjects THEN NoSearchResult
      ELSE first_good(_exact_name_search(s), _full_text_search(s),
                      _fuzzy_name_search(s), _description_search(s))

\* search_multi_entity: the first matching pattern whose two sides are both
\* found makes the comparison
search_multi_entity(q) ==
  LET multi == FrameFacts[q.frame].multi
      comparison(pair) == [type |-> "comparison", entity1 |-> pair[1], entity2 |-> pair[2]]
      first(found) == CHOOSE i \in found : \A j \in found : i <= j
      search(pairs, found) ==
        IF found = {}
          THEN [type |-> "single", entity1 |-> NoSearchResult, entity2 |-> NoSearchResult]
        ELSE comparison(pairs[first(found)])
      among(pairs) ==
        search(pairs, {i \in DOMAIN pairs : /\ pairs[i][1].entity_type # "none"
                                            /\ pairs[i][2].entity_type # "none"})
  IN  among([i \in DOMAIN multi |-> <<search_single_entity(Slot(q, multi[i][1])),
                                       search_single_entity(Slot(q, multi[i][2]))>>])

\* _find_entity_location: character_locations is read with the id of whatever
\* entity was found
location_inferences ==
  << <<"penguin", <<"iceberg_lounge", "arctic_world", "old_zoo">> >>,
     <<"joker", <<"ace_chemical", "amusement_mile">> >>,
     <<"batman", <<"batcave", "wayne_manor">> >>,
     <<"catwoman", <<"museum", "rooftop">> >> >>

LocationLike(lits) == FetchOne("locations", {r \in Range(locations) : NameHasAny(r.name, lits)})

InferredLocation(name) ==
  LET keys == {i \in DOMAIN location_inferences :
                 /\ NameHasAny(name, {location_inferences[i][1]})
                 /\ \E k \in DOMAIN location_inferences[i][2] :
                      LocationLike({location_inferences[i][2][k]}).type # "none"}
      key == CHOOSE i \in keys : \A j \in keys : i <= j
      locs == location_inferences[key][2]
  IN  IF keys = {} THEN NoRow
      ELSE FirstFound([k \in DOMAIN locs |-> LocationLike({locs[k]})])

_find_entity_location(s) ==
  LET first(linked) == CHOOSE i \in linked : \A j \in linked : i <= j
      location(location_id) == FetchOne("locations", {r \in Range(locations) : r.id = location_id})
      inferred(row) ==
        IF row.type # "none" THEN SearchResult(row, 800, "inference") ELSE NoSearchResult
      locate(entity, linked, batcave) ==
        IF entity.entity_type = "none" THEN NoSearchResult
        ELSE IF linked # {}
          THEN SearchResult(location(character_locations[first(linked)].location_id),
                            900, "relationship")
        ELSE IF /\ entity.entity_type = "vehicles" /\ NameHasAny(entity.name, {"bat"})
                /\ batcave.type # "none"
          THEN SearchResult(batcave, 800, "inference")
        ELSE IF entity.entity_type = "characters" THEN inferred(InferredLocation(entity.name))
        ELSE NoSearchResult
      of(entity) ==
        locate(entity,
               {i \in DOMAIN character_locations :
                  character_locations[i].character_id = entity.entity_id},
               LocationLike({"batcave"}))
  IN  of(search_single_entity(s))

_find_entity_users(s) ==
  LET first(linked) == CHOOSE i \in linked : \A j \in linked : i <= j
      user(user_id) == FetchOne("characters", {r \in Range(characters) : r.id = user_id})
      users(entity, linked, batman) ==
        IF entity.entity_type # "vehicles" THEN NoSearchResult
        ELSE IF linked # {}
          THEN SearchResult(user(vehicle_users[first(linked)].character_id),
                            900, "relationship")
        ELSE IF NameHasAny(entity.name, {"bat"}) /\ batman.type # "none"
          THEN SearchResult(batman, 800, "inference")
        ELSE NoSearchResult
      of(entity) ==
        users(entity,
              {i \in DOMAIN vehicle_users : vehicle_users[i].vehicle_id = entity.entity_id},
              FetchOne("characters", {r \in Range(characters) : NameHasAny(r.name, {"batman"})}))
  IN  of(search_single_entity(s))

search_by_relationship(q) ==
  LET srel == FrameFacts[q.frame].srel
  IN  IF srel[1] = "location" THEN _find_entity_location(Slot(q, srel[2]))
      ELSE IF srel[1] = "usage" THEN _find_entity_users(Slot(q, srel[2]))
      ELSE NoSearchResult

(***************************************************************************)
(* AdvancedQueryProcessor.find_best_vehicle_match and its helpers.  Of the *)
(* per-character rules only Batman's can apply to a catalogue subject.     *)
(***************************************************************************)
_is_character_vehicle_match(character_name, vehicle_name) ==
  \/ vehicle_name \in SubjectFacts[character_name].in_names
  \/ /\ character_name = "batman"
     /\ NameHasAny(vehicle_name, {"batmobile", "batcycle", "batwing", "batboat", "batcopter"})

_calculate_vehicle_score(vehicle_name, character_name, q) ==
  LET fuzzy_score == RatioOf[character_name][NamePos(vehicle_name)]
      context ==
        IF ~HasAny(q, {"drive", "car"}) THEN 0
        ELSE IF NameHasAny(vehicle_name, {"mobile", "car", "vehicle"}) THEN 25
        ELSE IF NameHasAny(vehicle_name, {"cycle", "bike"}) THEN 15
        ELSE IF NameHasAny(vehicle_name, {"copter", "plane", "wing"}) THEN 5
        ELSE IF NameHasAny(vehicle_name, {"boat", "sub", "ship", "submarine"}) THEN 0 - 10
        ELSE IF NameHasAny(vehicle_name, {"train", "rail"}) THEN 0 - 15
        ELSE 0
      iconic ==
        IF /\ character_name = "batman"
           /\ NameHasAny(vehicle_name, {"batmobile"})
           /\ NameFacts[vehicle_name].parts <= 2
          THEN 30 ELSE 0
      specific == IF NameHasAny(vehicle_name, {"(", "verse"}) THEN 5 ELSE 0
      malformed == IF NameHasAny(vehicle_name, {"%"}) THEN 3 ELSE 0
  IN  fuzzy_score + context + iconic - specific - malformed

\* the confidence of the best vehicle without the cap at 1.0
VehicleConfidenceUncapped(best_score) == best_score * 10

\* the confidence of the best vehicle, as _find_character_vehicle computes it
VehicleConfidence(best_score) == Min(best_score * 10, 1000)

_find_character_vehicle(character_name, q, threshold) ==
  LET cache == CacheInUse["vehicles"]
      score(vehicle) == _calculate_vehicle_score(vehicle.name, character_name, q)
      best_vehicle(vehicle, best_score) ==
        [entity_id |-> vehicle.id, entity_type |-> "vehicles", name |-> vehicle.name,
         confidence |-> VehicleConfidence(best_score), match_type |-> "character_vehicle"]
      best_of(scores, scored_vehicles) ==
        CHOOSE i \in scored_vehicles : \A j \in scored_vehicles :
          scores[i] > scores[j] \/ (scores[i] = scores[j] /\ i <= j)
      best(scores, i) == best_vehicle(cache[i], scores[i])
      pick(scores, scored_vehicles) ==
        IF scored_vehicles = {} THEN NoMatch
        ELSE best(scores, best_of(scores, scored_vehicles))
      among(scores) ==
        pick(scores, {i \in DOMAIN scores :
                        /\ _is_character_vehicle_match(character_name, cache[i].name)
                        /\ scores[i] >= threshold})
  IN  among([i \in DOMAIN cache |-> score(cache[i])])

find_best_vehicle_match(q, threshold) ==
  LET veh == FrameFacts[q.frame].veh
  IN  IF veh # "none" /\ Slot(q, veh) \in Subjects
        THEN _find_character_vehicle(Slot(q, veh), q, Min(threshold, 40))
      ELSE IF veh # "none" THEN NoMatch
      ELSE find_best_entity_match(q.sc, "vehicles", threshold)

(***************************************************************************)
(* ConversationIntelligence and EnhancedComparisonEngine.  A comparison    *)
(* gives [raised, winner, confidence]: winner "" stands for None, raised   *)
(* names the exception that leaves the call instead of a result.           *)
(***************************************************************************)
\* ConversationIntelligence.comparison_patterns: the dimensions
\* _parse_comparison_query selects
comparison_patterns == <<"speed", "strength", "intelligence", "size", "armor">>

\* EnhancedComparisonEngine.comparison_patterns: the 'logic' of each key,
\* without its suffix _ranking or _comparison
engine_comparison_patterns ==
  "strength" :> "strength" @@ "intelligence" :> "intelligence" @@ "speed" :> "speed" @@
  "combat" :> "combat" @@ "armor" :> "armor" @@ "weapons" :> "weapons"

strength_rankings ==
  << <<"superman", 10>>, <<"doomsday", 10>>, <<"darkseid", 10>>, <<"bane", 9>>,
     <<"killer_croc", 8>>, <<"clayface", 8>>, <<"batman", 7>>, <<"nightwing", 6>>,
     <<"robin", 5>>, <<"batgirl", 5>>, <<"catwoman", 5>>, <<"two-face", 4>>,
     <<"penguin", 3>>, <<"joker", 3>>, <<"riddler", 2>>, <<"scarecrow", 2>>,
     <<"alfred", 2>> >>

intelligence_rankings ==
  << <<"batman", 10>>, <<"oracle", 10>>, <<"mr_terrific", 10>>, <<"lex_luthor", 9>>,
     <<"riddler", 8>>, <<"ra's_al_ghul", 8>>, <<"joker", 7>>, <<"two-face", 7>>,
     <<"penguin", 6>>, <<"nightwing", 7>>, <<"robin", 6>>, <<"catwoman", 6>>,
     <<"bane", 6>>, <<"scarecrow", 7>>, <<"alfred", 8>> >>

speed_rankings ==
  << <<"flash", 10>>, <<"superman", 9>>, <<"nightwing", 7>>, <<"batman", 6>>,
     <<"robin", 6>>, <<"catwoman", 7>>, <<"batgirl", 6>>, <<"joker", 4>>, <<"bane", 3>>,
     <<"penguin", 2>>, <<"riddler", 3>> >>

combat_skill_rankings ==
  << <<"batman", 10>>, <<"lady_shiva", 10>>, <<"ra's_al_ghul", 9>>, <<"nightwing", 8>>,
     <<"robin", 7>>, <<"batgirl", 8>>, <<"catwoman", 7>>, <<"bane", 8>>, <<"joker", 5>>,
     <<"two-face", 6>>, <<"penguin", 3>>, <<"riddler", 4>> >>

\* character_rankings.get(ranking_type, {})
character_rankings(ranking_type) ==
  IF ranking_type = "strength" THEN strength_rankings
  ELSE IF ranking_type = "intelligence" THEN intelligence_rankings
  ELSE IF ranking_type = "speed" THEN speed_rankings
  ELSE IF ranking_type = "combat_skill" THEN combat_skill_rankings
  ELSE << >>

\* _estimate_character_score
_estimate_character_score(name) ==
  IF NameHasAny(name, {"batman", "robin", "nightwing", "batgirl"}) THEN 7
  ELSE IF NameHasAny(name, {"joker", "penguin", "riddler"}) THEN 4
  ELSE IF NameHasAny(name, {"bane", "killer", "croc", "clay"}) THEN 8
  ELSE 5

\* _get_character_score: the first ranking key that the name contains (an
\* equal key is found first), else the estimate
_get_character_score(name, rankings) ==
  LET hits == {i \in DOMAIN rankings : NameHasAny(name, {rankings[i][1]})}
  IN  IF hits = {} THEN _estimate_character_score(name)
      ELSE rankings[CHOOSE i \in hits : \A j \in hits : i <= j][2]

ComparisonResult(winner, confidence) ==
  [raised |-> "", winner |-> winner, confidence |-> confidence]

ComparisonRaised(exception) == [raised |-> exception, winner |-> "", confidence |-> 0]

\* the higher of two scores wins; equal scores leave no winner
Decided(name1, score1, name2, score2, won, even) ==
  IF score1 > score2 THEN ComparisonResult(name1, won)
  ELSE IF score2 > score1 THEN ComparisonResult(name2, won)
  ELSE ComparisonResult("", even)

\* self.comparison_patterns[comparison_type]['logic'] is a KeyError for a
\* comparison_type the engine has no pattern for
enhanced_character_comparison(name1, name2, comparison_type) ==
  IF comparison_type \notin DOMAIN engine_comparison_patterns THEN ComparisonRaised("KeyError")
  ELSE LET rankings == character_rankings(engine_comparison_patterns[comparison_type])
       IN  Decided(name1, _get_character_score(name1, rankings),
                   name2, _get_character_score(name2, rankings), 800, 600)

\* _get_vehicle_specs with _extract_speed_number: a vehicle without a
\* specification row has max_speed 'Unknown', which counts as 0
SpeedNumber(vehicle_id) ==
  LET rows == {i \in DOMAIN vehicle_specifications :
                 vehicle_specifications[i].vehicle_id = vehicle_id}
  IN  IF rows = {} THEN 0 ELSE vehicle_specifications[CHOOSE i \in rows : TRUE].max_speed

\* _get_vehicle_specs: 'armor_rating': 5 if result[1] else 3
ArmorRating(vehicle_id) ==
  IF \E i \in DOMAIN vehicle_specifications :
       /\ vehicle_specifications[i].vehicle_id = vehicle_id
       /\ vehicle_specifications[i].armor # ""
    THEN 5 ELSE 3

\* _get_vehicle_specs: COUNT(vw.weapon); the store has no defensive systems
WeaponsCount(vehicle_id) == Len(WeaponsOf(vehicle_id))

_compare_vehicle_speed(m1, m2) ==
  Decided(m1.name, SpeedNumber(m1.entity_id), m2.name, SpeedNumber(m2.entity_id), 800, 600)

_compare_vehicle_armor(m1, m2) ==
  Decided(m1.name, ArmorRating(m1.entity_id), m2.name, ArmorRating(m2.entity_id), 700, 700)

\* speed / 100 + armor_rating + weapons_count, in hundredths
_compare_vehicle_overall(m1, m2) ==
  LET score(id) == SpeedNumber(id) + 100 * ArmorRating(id) + 100 * WeaponsCount(id)
  IN  Decided(m1.name, score(m1.entity_id), m2.name, score(m2.entity_id), 600, 600)

enhanced_vehicle_comparison(m1, m2, comparison_type) ==
  IF comparison_type = "speed" THEN _compare_vehicle_speed(m1, m2)
  ELSE IF comparison_type = "armor" THEN _compare_vehicle_armor(m1, m2)
  ELSE _compare_vehicle_overall(m1, m2)

\* _compare_entities_fallback on mixed kinds: no winner
_compare_entities_fallback == ComparisonResult("", 500)

_enhanced_compare_entities(m1, m2, comparison_type) ==
  IF m1.entity_type = "characters" /\ m2.entity_type = "characters"
    THEN enhanced_character_comparison(m1.name, m2.name, comparison_type)
  ELSE IF m1.entity_type = "vehicles" /\ m2.entity_type = "vehicles"
    THEN enhanced_vehicle_comparison(m1, m2, comparison_type)
  ELSE _compare_entities_fallback

\* find_best_entity_match on a part of the text
MatchSubject(s, entity_type, threshold) ==
  IF s \in Subjects THEN find_best_entity_match(ScoresOf(WRatioOf, s), entity_type, threshold)
  ELSE NoMatch

NoComparison == [found |-> FALSE, entity1 |-> NoMatch, entity2 |-> NoMatch, confidence |-> 0]

handle_comparative_query(q) ==
  LET cmp == FrameFacts[q.frame].cmp
      compared(entity1_match, entity2_match) ==
        IF entity1_match = NoMatch \/ entity2_match = NoMatch THEN NoComparison
        ELSE [found |-> TRUE, entity1 |-> entity1_match, entity2 |-> entity2_match,
              confidence |->
                _enhanced_compare_entities(entity1_match, entity2_match, cmp[1]).confidence]
  IN  IF cmp[1] = "none" THEN NoComparison
      ELSE compared(MatchSubject(Slot(q, cmp[2]), "", 70),
                    MatchSubject(Slot(q, cmp[3]), "", 70))

\* ConversationIntelligence._get_predefined_relationships: the ids of the
\* characters the predefined names find (names in lower case, as LIKE compares)
batman_relationships ==
  [allies |-> <<"robin", "nightwing", "batgirl", "alfred_pennyworth", "commissioner_gordon",
                "oracle", "red_robin", "catwoman">>,
   enemies |-> <<"joker", "two-face", "penguin", "riddler", "bane", "scarecrow",
                 "poison_ivy", "mr_freeze", "harley_quinn", "ra's_al_ghul">>]

joker_relationships ==
  [allies |-> <<"harley_quinn", "penguin">>,
   enemies |-> <<"batman", "robin", "nightwing", "batgirl">>]

CharacterLike(lit) == FetchOne("characters", {r \in Range(characters) : NameHasAny(r.name, {lit})})

_get_predefined_relationships(entity_id, relationship_type) ==
  LET entity == FetchOne("characters", {r \in Range(characters) : r.id = entity_id})
      listed(rels) == IF relationship_type \in DOMAIN rels THEN rels[relationship_type]
                      ELSE << >>
      target_list ==
        IF NameHasAny(entity.name, {"batman", "bruce wayne"}) THEN listed(batman_relationships)
        ELSE IF NameHasAny(entity.name, {"joker"}) THEN listed(joker_relationships)
        ELSE IF relationship_type = "enemies" THEN << "batman" >>
        ELSE << >>
      ids(found) == [k \in DOMAIN found |-> CharacterLike(found[k]).id]
  IN  IF entity.type = "none" THEN << >>
      ELSE ids(SelectSeq(Prefix(target_list, 8),
                         LAMBDA lit : CharacterLike(lit).type # "none"))

\* relationship_type[:-1], the 'relationship' of a predefined entity
WithoutLastLetter == [allies |-> "allie", enemies |-> "enemie", family |-> "famil"]

\* _find_related_entities on a store whose character_relationships holds the
\* rows `stored`: the first ten rows for the id, whatever their
\* relationship_type, each with the type it is stored with; predefined
\* knowledge when there is none
RelatedEntities(entity_id, entity_type, relationship_type, stored) ==
  LET predefined == _get_predefined_relationships(entity_id, relationship_type)
      related(rows) ==
        IF rows # << >>
          THEN [k \in DOMAIN rows |-> [id |-> rows[k].related_character_id,
                                       relationship |-> rows[k].relationship_type]]
        ELSE [k \in DOMAIN predefined |->
                [id |-> predefined[k], relationship |-> WithoutLastLetter[relationship_type]]]
  IN  IF entity_type # "characters" THEN << >>
      ELSE related(Prefix(SelectSeq(stored, LAMBDA cr : cr.character_id = entity_id), 10))

_find_related_entities(entity_id, entity_type, relationship_type) ==
  LET related == RelatedEntities(entity_id, entity_type, relationship_type,
                                 character_relationships)
  IN  [k \in DOMAIN related |-> related[k].id]

NoRelationship == [found |-> FALSE, primary_entity |-> NoMatch, related_entities |-> << >>]

\* ConversationIntelligence.handle_relationship_query
handle_relationship_query(q) ==
  LET crel == FrameFacts[q.frame].crel
      related(entity_match, related_entities) ==
        IF related_entities = << >> THEN NoRelationship
        ELSE [found |-> TRUE, primary_entity |-> entity_match,
              related_entities |-> related_entities]
      of(entity_match) ==
        IF entity_match = NoMatch THEN NoRelationship
        ELSE related(entity_match,
                     _find_related_entities(entity_match.entity_id,
                                            entity_match.entity_type, crel[1]))
  IN  IF crel[1] = "none" THEN NoRelationship
      ELSE of(MatchSubject(Slot(q, crel[2]), "", 70))

\* the response process_query and _handle_relationship_query build from it
RelationshipResponse(rel_result) ==
  BatmanResponse("relationship_query", 800,
                 << rel_result.primary_entity.entity_id >> \o Prefix(rel_result.related_entities, 3),
                 << >>, FALSE, JunkMention)

\* ConversationIntelligence._get_all_entities_of_type on a table with these
\* rows: SELECT id, name, description FROM {entity_type} LIMIT 20
_get_all_entities_of_type(rows) == Prefix(rows, 20)

\* the dictionary handle_multi_entity_query returns for 'list_all'; found
\* FALSE stands for None
NoListing == [found |-> FALSE, entities |-> << >>, total_count |-> 0]

ListAll(rows) ==
  LET entities == _get_all_entities_of_type(rows)
  IN  IF entities = << >> THEN NoListing
      ELSE [found |-> TRUE, entities |-> Prefix(entities, 10), total_count |-> Len(entities)]

\* ConversationIntelligence.handle_multi_entity_query for 'list_all' (no text
\* of the catalogue parses as 'character_related'), as process_query reads
\* it: the ids of the first five entities; << >> stands for None
handle_multi_entity_query(q) ==
  LET cmulti == FrameFacts[q.frame].cmulti
      entities == ListAll(Table(cmulti[2])).entities
  IN  IF cmulti[1] # "list_all" THEN << >>
      ELSE [k \in DOMAIN Prefix(entities, 5) |-> entities[k].id]

(***************************************************************************)
(* Answers.  The response generator picks its phrases with random.choice:  *)
(* the phrase picked decides what the follow-up patterns later find in the *)
(* answer: nothing, the entity's name, or other words.  The fixed          *)
(* templates of BatmanChatbot put the name before " is".                   *)
(***************************************************************************)
Templates == {"none", "name", "junk"}

\* what the entity patterns extract where a name stands before " is"
NameMention(name) ==
  IF NameFacts[name].words = 1 THEN NameSubject(name)
  ELSE IF NameHasAny(name, {"("}) THEN ""
  ELSE JunkMention

Generated(query_type, confidence, match, tmpl) ==
  BatmanResponse(query_type, confidence, << match.entity_id >>, << >>,
                 <<match.entity_type, match.name>> \in DescribedWithWeapons,
                 IF tmpl = "name" THEN NameMention(match.name)
                 ELSE IF tmpl = "junk" THEN JunkMention ELSE "")

\* answers that quote the query: templates "not_found" and "multiple_matches"
Echo(query_type, confidence, matches, q) ==
  BatmanResponse(query_type, confidence, << >>, matches,
                 "weapons" \in QueryLits(q), FrameFacts[q.frame].mention)

(***************************************************************************)
(* conversation_history: of each entry the role, whether the content       *)
(* contains 'weapons' and the entity mention the follow-up patterns find   *)
(* in it.  The code reads the last six entries at most.                    *)
(***************************************************************************)
LastN(h, n) == SubSeq(h, Max(1, Len(h) - n + 1), Len(h))

Append6(h, e) == LastN(Append(h, e), 6)

UserEntry(q) ==
  [role |-> "user", weapons |-> "weapons" \in QueryLits(q),
   mention |-> FrameFacts[q.frame].mention]

AssistantEntry(answer) ==
  [role |-> "assistant", weapons |-> answer.weapons, mention |-> answer.mention]

\* The frames whose own words hold a whole-word it/that/this and whose
\* mention holds it too ("who is this"): replacing the word by the mention
\* gives a longer text ("who is who is this is {a}") with the same keywords,
\* the same pattern matches and again a mention that holds the word, so the
\* resolved text is a text of the same frame.
PronounFrames == {f \in Frames : "this" \in FrameFacts[f].lits}

\* the text of the query with its whole-word pronoun replaced by entity_name
HasPronounWord(q) == q.a = "it" \/ q.b = "it" \/ q.frame \in PronounFrames

Resolved(q, entity_name) ==
  LET a == IF q.a = "it" THEN entity_name ELSE q.a
  IN  [frame |-> q.frame, a |-> a, b |-> IF q.b = "it" THEN entity_name ELSE q.b,
       sc |-> IF a = q.a THEN q.sc ELSE ScoresOf(WRatioOf, a)]

(***************************************************************************)
(* BatmanChatbot: the handlers behind _classify_query.  A handler returns  *)
(* the response and the conversation history it leaves (the follow-up      *)
(* handler re-enters process_query, which appends to the history).         *)
(***************************************************************************)
RECURSIVE process_query(_, _, _)

\* nested: the calls of process_query made inside this one
Outcome(answer, history) == [response |-> answer, history |-> history, nested |-> 0]

Redispatched(outcome) == [outcome EXCEPT !.nested = @ + 1]

CharactersOf(matches) == SelectSeq(matches, LAMBDA m : m.entity_type = "characters")

\* _handle_contextual_followup: the newest entry of the last six that has an
\* entity mention resolves the pronoun; without one, or when the query has no
\* it/that/this to replace, the answer asks for context
_handle_contextual_followup(h, q, tmpl) ==
  LET newest(mentions) == mentions[CHOOSE i \in DOMAIN mentions : \A j \in DOMAIN mentions : i >= j]
      resolve(mentions) ==
        IF HasPronounWord(q) /\ mentions # << >>
          THEN Redispatched(process_query(h, Resolved(q, newest(mentions).mention), tmpl))
        ELSE Outcome(BatmanResponse("clarification_needed", 0, << >>, << >>, FALSE, ""), h)
  IN  resolve(SelectSeq(LastN(h, 6), LAMBDA e : e.mention # ""))

ambiguous_names == {"robin", "batgirl", "flash", "green lantern", "joker", "batman"}

pronouns == {"it", "that", "this", "them", "him", "her"}

\* the test of _handle_character_query on conversation_history[-4:]: an
\* assistant entry whose content contains 'weapons'
weapons_context_of_last_six(h) ==
  \E i \in DOMAIN LastN(h, 6) : LastN(h, 6)[i].role = "assistant" /\ LastN(h, 6)[i].weapons

weapons_context(h) ==
  \E i \in DOMAIN LastN(h, 4) : LastN(h, 4)[i].role = "assistant" /\ LastN(h, 4)[i].weapons

_handle_character_query(h, q, tmpl) ==
  LET suggest(char_matches) == Outcome(Echo("character_lookup", 500, char_matches, q), h)
      found(match) == Outcome(Generated("character_lookup", match.confidence, match, tmpl), h)
      lookup(ambiguous_result, all_characters, match) ==
        IF /\ HasAny(q, ambiguous_names)
           /\ ambiguous_result.type = "multiple_matches"
           /\ Len(all_characters) > 1
          THEN suggest(Prefix(all_characters, 5))
        ELSE IF match # NoMatch /\ match.confidence > 600 THEN found(match)
        ELSE IF ambiguous_result.type = "multiple_matches" /\ all_characters # << >>
          THEN suggest(Prefix(all_characters, 5))
        ELSE Outcome(Echo("character_lookup", 0, << >>, q), h)
      matching(ambiguous_result) ==
        lookup(ambiguous_result, CharactersOf(ambiguous_result.matches),
               find_best_entity_match(q.sc, "characters", 70))
      scoped(scope_check) ==
        IF scope_check # "ok" THEN Outcome(out_of_scope(scope_check), h)
        ELSE IF HasAny(q, pronouns) /\ weapons_context(h)
          THEN _handle_contextual_followup(h, q, tmpl)
        ELSE matching(handle_ambiguous_query(q.sc))
  IN  scoped(_check_batman_scope(q))

\* the text "robin" that _handle_sidekick_query searches for
robin_query == [frame |-> "bare", a |-> "robin", b |-> "", sc |-> ScoresOf(WRatioOf, "robin")]

_handle_sidekick_query(h, q, tmpl) ==
  LET robins(ambiguous_result, char_matches) ==
        IF ambiguous_result.type = "multiple_matches" /\ Len(char_matches) > 1
          THEN Outcome(BatmanResponse("sidekick_lookup", 500, << >>,
                                      Prefix(char_matches, 5), FALSE, ""), h)
        ELSE _handle_character_query(h, robin_query, tmpl)
      matching(ambiguous_result) ==
        robins(ambiguous_result,
               SelectSeq(CharactersOf(ambiguous_result.matches),
                         LAMBDA m : NameHasAny(m.name, {"robin"})))
  IN  matching(handle_ambiguous_query(robin_query.sc))

_handle_vehicle_query(h, q, tmpl) ==
  LET confidence_threshold(match) ==
        IF match.match_type = "character_vehicle" THEN 400 ELSE 600
      lookup(match) ==
        IF match # NoMatch /\ match.confidence > confidence_threshold(match)
          THEN Outcome(Generated("vehicle_lookup", match.confidence, match, tmpl), h)
        ELSE Outcome(Echo("vehicle_lookup", 0, << >>, q), h)
      scoped(scope_check) ==
        IF scope_check # "ok" THEN Outcome(out_of_scope(scope_check), h)
        ELSE IF HasAny(q, {"what does", "what do", "drive", "car"})
          THEN lookup(find_best_vehicle_match(q, 70))
        ELSE lookup(find_best_entity_match(q.sc, "vehicles", 70))
  IN  scoped(_check_batman_scope(q))

_handle_location_query(h, q, tmpl) ==
  LET lookup(match) ==
        IF match # NoMatch /\ match.confidence > 600
          THEN Outcome(Generated("location_lookup", match.confidence, match, tmpl), h)
        ELSE Outcome(Echo("location_lookup", 0, << >>, q), h)
  IN  lookup(find_best_entity_match(q.sc, "locations", 70))

_handle_relationship_query(h, q, tmpl) ==
  LET answer(rel_result) ==
        IF rel_result.found THEN Outcome(RelationshipResponse(rel_result), h)
        ELSE Outcome(BatmanResponse("relationship_query", 0, << >>, << >>, FALSE, ""), h)
  IN  answer(handle_relationship_query(q))

\* _handle_general_search: the storyline template names a field the call
\* does not supply, so str.format raises KeyError
_handle_general_search(h, q, tmpl) ==
  LET found(best_match) ==
        IF best_match.entity_type = "storylines" THEN Outcome(Raised("KeyError"), h)
        ELSE Outcome(BatmanResponse("general_search", best_match.confidence,
                                    << best_match.entity_id >>, << >>,
                                    <<best_match.entity_type, best_match.name>>
                                      \in DescribedWithWeapons,
                                    NameMention(best_match.name)), h)
      suggest(ambiguous_result) ==
        IF ambiguous_result.type = "multiple_matches"
          THEN Outcome(Echo("general_search", 500, Prefix(ambiguous_result.matches, 5), q), h)
        ELSE Outcome(BatmanResponse("general_search", 0, << >>, << >>, FALSE, ""), h)
      search(best_match) ==
        IF best_match # NoMatch /\ best_match.confidence > 600 THEN found(best_match)
        ELSE suggest(handle_ambiguous_query(q.sc))
      scoped(scope_check) ==
        IF scope_check # "ok" THEN Outcome(out_of_scope(scope_check), h)
        ELSE search(find_best_entity_match(q.sc, "", 60))
  IN  scoped(_check_batman_scope(q))

\* _handle_comparison_result: the answer opens with "**name**"
_handle_comparison_result(multi_result) ==
  BatmanResponse("comparison", 900,
                 << multi_result.entity1.entity_id, multi_result.entity2.entity_id >>, << >>,
                 \/ <<multi_result.entity1.entity_type, multi_result.entity1.name>>
                      \in DescribedWithWeapons
                 \/ <<multi_result.entity2.entity_type, multi_result.entity2.name>>
                      \in DescribedWithWeapons,
                 NameMention(multi_result.entity1.name))

\* _handle_relationship_result: a generated answer about the entity found
_handle_relationship_result(result, tmpl) ==
  Generated(result.entity_type, result.confidence, result, tmpl)

(***************************************************************************)
(* BatmanChatbot.process_query: the user entry is appended first; the      *)
(* relationship processor, the search engine and the conversation          *)
(* intelligence are asked in that order and the first that answers is      *)
(* returned at once; otherwise the classified handler answers and its      *)
(* answer is appended to the history.                                      *)
(* An exception leaves the history with the entries appended so far.       *)
(***************************************************************************)
Classified(h, q, tmpl) ==
  LET query_type == _classify_query(q)
  IN  CASE query_type = "character_lookup" -> _handle_character_query(h, q, tmpl)
        [] query_type = "sidekick_lookup" -> _handle_sidekick_query(h, q, tmpl)
        [] query_type = "vehicle_lookup" -> _handle_vehicle_query(h, q, tmpl)
        [] query_type = "location_lookup" -> _handle_location_query(h, q, tmpl)
        [] query_type = "relationship_query" -> _handle_relationship_query(h, q, tmpl)
        [] query_type = "general_search" -> _handle_general_search(h, q, tmpl)

process_query(h0, q, tmpl) ==
  LET h == Append6(h0, UserEntry(q))
      processor(relationship_result) ==
        IF relationship_result # NoResult
          THEN _handle_relationship_processor_result(relationship_result)
        ELSE NoResponse
      comparison(multi_result) ==
        IF multi_result.type = "comparison" THEN _handle_comparison_result(multi_result)
        ELSE NoResponse
      by_relationship(search_result) ==
        IF search_result # NoSearchResult
          THEN _handle_relationship_result(search_result, tmpl)
        ELSE NoResponse
      comparative(comp_result) ==
        IF comp_result.found
          THEN BatmanResponse("comparative_analysis", comp_result.confidence,
                              << comp_result.entity1.entity_id,
                                 comp_result.entity2.entity_id >>,
                              << >>, FALSE, JunkMention)
        ELSE NoResponse
      relationship(rel_result) ==
        IF rel_result.found THEN RelationshipResponse(rel_result) ELSE NoResponse
      multi_entity(entities) ==
        IF entities # << >>
          THEN BatmanResponse("multi_entity_query", 800, entities, << >>, FALSE, "")
        ELSE NoResponse
      classified(handled) ==
        IF handled.response.raised # "" THEN handled
        ELSE [handled EXCEPT !.history = Append6(@, AssistantEntry(handled.response))]
      first(returned) ==
        IF returned # << >> THEN Outcome(returned[1], h)
        ELSE classified(Classified(h, q, tmpl))
  IN  first(SelectSeq(<< processor(process_relationship_query(q)),
                         comparison(search_multi_entity(q)),
                         by_relationship(search_by_relationship(q)),
                         comparative(handle_comparative_query(q)),
                         relationship(handle_relationship_query(q)),
                         multi_entity(handle_multi_entity_query(q)) >>,
                      LAMBDA r : r # NoResponse))

(***************************************************************************)
(* BatmanChatbot.get_entity_info_direct: the first table that has a row of *)
(* that name; the response names the table as its query_type and carries   *)
(* the name, not an id, in source_entities.                                *)
(***************************************************************************)
DirectRow(entity_name) ==
  FirstFound([i \in DOMAIN Kinds |-> FetchOne(Kinds[i], {r \in Range(Table(Kinds[i])) : r.name = entity_name})])

get_entity_info_direct(entity_name, tmpl) ==
  LET entity_found == DirectRow(entity_name)
      generated == Generated(entity_found.type, 1000,
                             [entity_id |-> entity_found.id, entity_type |-> entity_found.type,
                              name |-> entity_found.name], tmpl)
  IN  IF entity_found.type = "none"
        THEN BatmanResponse("not_found", 0, << >>, << >>, FALSE, "")
      ELSE [generated EXCEPT !.source_entities = << >>, !.source_names = << entity_name >>]

(***************************************************************************)
(* The queries.  A lookup takes any text of the catalogue, with one of the *)
(* score vectors when it has one subject; a conversation is made of a few  *)
(* texts with the scores the library gives their subject.                  *)
(***************************************************************************)
NoQuery == [frame |-> "none", a |-> "", b |-> "", sc |-> Flat(0)]

Query(frame, a, b, sc) ==
  [frame |-> frame,
   a |-> IF FrameFacts[frame].arity >= 1 THEN a ELSE "",
   b |-> IF FrameFacts[frame].arity = 2 THEN b ELSE "",
   sc |-> sc]

\* the subjects a text is written with ("who" and "where" are what the
\* follow-up patterns extract from a text, see FrameFacts)
QuerySubjects == Subjects \ {"who", "where"}

\* a text of one subject comes with any of the score vectors, a text of two
\* subjects or none with the scores of its first subject alone
Queries ==
  {Query(f, a, b, sc) : f \in {g \in Frames : FrameFacts[g].arity = 1},
                        a \in QuerySubjects, b \in {""}, sc \in ScoreVectors}
    \cup {Query(f, a, b, ScoresOf(WRatioOf, a)) :
            f \in {g \in Frames : FrameFacts[g].arity # 1},
            a \in QuerySubjects, b \in QuerySubjects}

SessionFrames == {"tell_me_about", "tell_weapons", "who_is", "weapons"}

SessionSubjects == {"nightwing", "batmobile", "it", "zzqx"}

SessionQueries ==
  {Query(f, a, "", ScoresOf(WRatioOf, a)) : f \in SessionFrames, a \in SessionSubjects}

bot == <<conversation_history, response, last_query, asked>>

web == <<last_numbered_options, offered, last_mentioned_entity, status, selection>>

chatbot == <<store, conn, entity_cache>>

vars == <<store, conn, entity_cache, conversation_history, response, last_query, asked,
          last_numbered_options, offered, last_mentioned_entity, status, selection, call>>

NoSelection == [number |-> 0, entity_type |-> "", entity_id |-> 0, name |-> ""]

NoCall ==
  [fn |-> "", text |-> NoQuery, stored |-> << >>, rows |-> << >>, sc |-> Flat(0),
   entity_type |-> "",
   threshold |-> 0,
   max_results |-> 0, entity1 |-> NoMatch, entity2 |-> NoMatch, comparison_type |-> "",
   entity_id |-> 0, relationship_type |-> "",
   returned |-> << >>]

\* initialize_chatbot (web_app) or main (batman_chatbot) with the store in
\* state db; without a chatbot the process exits
Started(db) ==
  /\ store = db
  /\ conn = BatmanChatbot(db).conn
  /\ entity_cache = BatmanChatbot(db).entity_cache
  /\ conversation_history = << >>
  /\ response = NoResponse
  /\ last_query = NoQuery
  /\ asked = 0
  /\ last_numbered_options = << >>
  /\ offered = << >>
  /\ last_mentioned_entity = FALSE
  /\ status = 0
  /\ selection = NoSelection
  /\ call = NoCall

Init == Started("ok")

\* the texts whose first statement on the store runs outside every try block:
\* in _find_entity, _exact_name_search
FirstStatementUncaught(q) ==
  \/ FrameFacts[q.frame].rel[1] # "none"
  \/ FrameFacts[q.frame].multi # << >>
  \/ FrameFacts[q.frame].srel[1] # "none"

\* BatmanChatbot.process_query of a chatbot with connection c on a store in
\* state db
process_query_on(c, db, h0, q, tmpl) ==
  IF c = "none"
    THEN Outcome(BatmanResponse("error", 0, << >>, << >>, FALSE, ""), h0)
  ELSE IF db = "failing" /\ FirstStatementUncaught(q)
    THEN Outcome(Raised("OperationalError"), Append6(h0, UserEntry(q)))
  ELSE process_query(h0, q, tmpl)

\* BatmanChatbot.get_entity_info_direct of a chatbot with connection c: its
\* statements run inside a try block
get_entity_info_direct_on(c, db, entity_name, tmpl) ==
  IF c = "none" \/ db = "failing"
    THEN BatmanResponse("error", 0, << >>, << >>, FALSE, "")
  ELSE get_entity_info_direct(entity_name, tmpl)

\* while the store fails, the texts sent are those of FirstStatementUncaught
Sendable(q) == (conn = "open" /\ store = "failing") => FirstStatementUncaught(q)

\* a caller of the chatbot (the command line loop, the test runner)
ProcessQuery(q, tmpl) ==
  LET answered(out) ==
        /\ conversation_history' = out.history
        /\ response' = out.response
  IN  /\ conn # "absent"
      /\ Sendable(q)
      /\ answered(process_query_on(conn, store, conversation_history, q, tmpl))
      /\ last_query' = q
      /\ asked' = asked + 1
      /\ UNCHANGED <<web, chatbot, call>>

\* a reply that carries no answer of the chatbot
NoAnswer ==
  /\ response' = NoResponse
  /\ last_query' = NoQuery
  /\ selection' = NoSelection

\* POST /api/chat with any text once an entity is remembered:
\* ConversationSession.resolve_pronouns uses the module re, which web_app
\* imports only inside chat(), so it raises NameError and chat() answers
\* HTTP 500
ChatFails ==
  /\ conn # "absent"
  /\ last_mentioned_entity
  /\ status' = 500
  /\ NoAnswer
  /\ UNCHANGED <<conversation_history, asked, last_numbered_options, offered,
                 last_mentioned_entity, chatbot, call>>

\* whether chat() extracts an entity name depends on the phrases of the
\* answer; without source entities it never looks for one
Tracked(r) == IF r.source_entities = << >> THEN {FALSE} ELSE BOOLEAN

\* POST /api/chat with a text.  A chatbot without conversation_intelligence
\* (built without a connection) is replaced by a new BatmanChatbot before the
\* query is processed; when that constructor raises, chat() answers HTTP 500
\* and the old chatbot stays.
ChatText(q, tmpl) ==
  /\ conn # "absent"
  /\ ~last_mentioned_entity
  /\ Sendable(q)
  /\ LET answered(out) ==
           /\ conversation_history' = out.history
           /\ response' = out.response
           /\ IF out.response.raised # ""
                THEN /\ status' = 500
                     /\ UNCHANGED <<last_numbered_options, offered, last_mentioned_entity>>
                ELSE /\ status' = 200
                     /\ last_numbered_options' =
                          IF out.response.prompt THEN out.response.suggestions
                          ELSE last_numbered_options
                     /\ offered' = IF out.response.prompt THEN out.response.listed
                                   ELSE offered
                     /\ last_mentioned_entity' \in Tracked(out.response)
     IN  IF conn = "none" /\ BatmanChatbot(store).conn = "absent"
           THEN /\ status' = 500
                /\ NoAnswer
                /\ UNCHANGED <<conversation_history, asked, last_numbered_options, offered,
                               last_mentioned_entity, chatbot, call>>
         ELSE /\ conn' = IF conn = "none" THEN BatmanChatbot(store).conn ELSE conn
              /\ entity_cache' = IF conn = "none" THEN BatmanChatbot(store).entity_cache
                                 ELSE entity_cache
              /\ answered(process_query_on(IF conn = "none" THEN BatmanChatbot(store).conn
                                            ELSE conn,
                                            store,
                                            IF conn = "none" THEN << >> ELSE conversation_history,
                                            q, tmpl))
              /\ last_query' = q
              /\ asked' = asked + 1
              /\ selection' = NoSelection
              /\ UNCHANGED <<store, call>>

\* POST /api/chat with digits: resolve_pronouns (which raises once an entity
\* is remembered), get_option_by_number, then get_entity_info_direct with the
\* stored name
Ordinals == 0 .. 6

ChatNumber(number) ==
  /\ conn # "absent"
  /\ IF last_mentioned_entity
       THEN /\ status' = 500
            /\ NoAnswer
            /\ UNCHANGED <<conversation_history, asked, last_numbered_options, offered,
                           last_mentioned_entity, chatbot, call>>
     ELSE IF 1 <= number /\ number <= Len(last_numbered_options)
       THEN /\ \E tmpl \in Templates :
                 response' = get_entity_info_direct_on(conn, store,
                                                       last_numbered_options[number], tmpl)
            /\ last_query' = NoQuery
            /\ selection' = [number |-> number,
                             entity_type |-> offered[number].entity_type,
                             entity_id |-> offered[number].entity_id,
                             name |-> last_numbered_options[number]]
            /\ last_numbered_options' = << >>
            /\ offered' = << >>
            /\ last_mentioned_entity' = TRUE
            /\ status' = 200
            /\ UNCHANGED <<conversation_history, asked, chatbot, call>>
       ELSE /\ status' = 400
            /\ NoAnswer
            /\ UNCHANGED <<conversation_history, asked, last_numbered_options, offered,
                           last_mentioned_entity, chatbot, call>>

\* POST /api/chat without a query
ChatEmpty ==
  /\ conn # "absent"
  /\ status' = 400
  /\ NoAnswer
  /\ UNCHANGED <<conversation_history, asked, last_numbered_options, offered,
                 last_mentioned_entity, chatbot, call>>

\* POST /api/session/new
NewSession ==
  /\ conn # "absent"
  /\ last_numbered_options' = << >>
  /\ offered' = << >>
  /\ last_mentioned_entity' = FALSE
  /\ status' = 200
  /\ NoAnswer
  /\ UNCHANGED <<conversation_history, asked, chatbot, call>>

\* the store starts to fail, or is put (back) in place, under a running process
StoreFails ==
  /\ store = "ok"
  /\ store' = "failing"
  /\ UNCHANGED <<conn, entity_cache, bot, web, call>>

StoreRestored ==
  /\ store # "ok"
  /\ store' = "ok"
  /\ UNCHANGED <<conn, entity_cache, bot, web, call>>

(***************************************************************************)
(* Direct calls of the chatbot's components, as test_query_processor and   *)
(* the handlers make them: the scores are those the similarity library     *)
(* gives the text of the call.                                             *)
(***************************************************************************)
CallLevels == {0, 45, 55, 60, 100}

\* the names of characters that get the bonus of a short name only
MinorNames ==
  {r.name : r \in {x \in Range(_build_entity_cache["characters"]) :
                     _calculate_importance_bonus(x.name, "characters") = 5}}

\* the minor names at one level, every other name at another
Split(minor, other) == [n \in Names |-> IF n \in MinorNames THEN minor ELSE other]

CallVectors ==
  {Flat(l) : l \in CallLevels}
    \cup {Vec(n, l, n, l) : n \in Names, l \in CallLevels}
    \cup {Vec(n1, l1, n2, 55) : n1 \in Names, l1 \in {55, 100}, n2 \in Names}
    \cup {Split(60, 55), Split(100, 60), Split(55, 55)}

\* thresholds the callers in the code pass, and the top of the range
Thresholds == {40, 50, 60, 70, 100}

ResultLimits == {1, 2, 5}

\* the entities a caller has resolved: any row of the cache
ResolvedEntities ==
  UNION {{EntityMatch(row, kind, 1000) : row \in Range(entity_cache[kind])} :
           kind \in Range(Kinds)}

Called(c) ==
  /\ conn = "open"
  /\ call' = c
  /\ UNCHANGED <<bot, web, chatbot>>

CallFindBest(sc, entity_type, threshold) ==
  Called([NoCall EXCEPT !.fn = "find_best_entity_match", !.sc = sc,
                        !.entity_type = entity_type, !.threshold = threshold,
                        !.returned = find_best_entity_match(sc, entity_type, threshold)])

CallFindMultiple(sc, max_results, threshold) ==
  Called([NoCall EXCEPT !.fn = "find_multiple_entities", !.sc = sc,
                        !.max_results = max_results, !.threshold = threshold,
                        !.returned = find_multiple_entities(sc, max_results, threshold)])

\* the texts of the catalogue, whatever their scores
CallTexts == {Query(f, a, b, Flat(0)) : f \in Frames, a \in QuerySubjects, b \in QuerySubjects}

CallClassify(q) ==
  Called([NoCall EXCEPT !.fn = "_classify_query", !.text = q,
                        !.returned = _classify_query(q)])

CallScope(q) ==
  Called([NoCall EXCEPT !.fn = "_check_batman_scope", !.text = q,
                        !.returned = _check_batman_scope(q)])

\* process_query on any conversation history: the entries a history is made
\* of, and texts with and without a pronoun
HistoryEntries ==
  {[role |-> "user", weapons |-> FALSE, mention |-> ""],
   [role |-> "user", weapons |-> TRUE, mention |-> ""],
   [role |-> "assistant", weapons |-> FALSE, mention |-> "nightwing"],
   [role |-> "assistant", weapons |-> TRUE, mention |-> "batmobile"]}

MaxHistory == 4

Histories == UNION {[1..n -> HistoryEntries] : n \in 0..MaxHistory}

FollowupTexts ==
  {Query(f, a, "", ScoresOf(WRatioOf, a)) :
     f \in {"bare", "who_is", "tell_me_about"}, a \in {"it", "nightwing", "zzqx"}}
    \cup {Query(f, a, "", sc) : f \in PronounFrames, a \in {"nightwing", "zzqx"},
                                 sc \in {Flat(0), Vec("Nightwing", 100, "Nightwing", 100)}}

CallProcessQuery(h, q, tmpl) ==
  Called([NoCall EXCEPT !.fn = "process_query", !.text = q, !.stored = h,
                        !.returned = process_query(h, q, tmpl)])

\* _find_related_entities for a character, on a store that holds up to
\* MaxRelations relations between the first characters
RelationTypes == {"ally", "enemy", "family"}

MaxRelations == 2

StoredRelation ==
  {cr \in [character_id : {1, 2}, related_character_id : {2, 4},
           relationship_type : RelationTypes] : cr.character_id # cr.related_character_id}

StoredRelations == UNION {[1..n -> StoredRelation] : n \in 0..MaxRelations}

CallFindRelated(entity_id, relationship_type, stored) ==
  Called([NoCall EXCEPT !.fn = "_find_related_entities", !.entity_id = entity_id,
                        !.relationship_type = relationship_type, !.stored = stored,
                        !.returned = RelatedEntities(entity_id, "characters",
                                                     relationship_type, stored)])

\* the locations of the store that are associated with Batman, in stored
\* order: the first n by name, or the same in the opposite order
Reversed(seq) == [i \in DOMAIN seq |-> seq[Len(seq) + 1 - i]]

StoredLocations ==
  UNION {{SubSeq(LocationsByName, 1, n), Reversed(SubSeq(LocationsByName, 1, n))} :
           n \in DOMAIN LocationsByName}

\* a location question about Batman, on a store with these associations
CallLocationQuery(stored) ==
  Called([NoCall EXCEPT !.fn = "process_location_query", !.stored = stored,
                        !.returned =
                          _handle_relationship_processor_result(
                            CharacterLocations(_find_entity("batman"), stored))])

\* the table of one kind in stores of several sizes: rows 1..n
StoredTables == {[i \in 1..n |-> [id |-> i]] : n \in 0..25}

\* "list all vehicles" and the like, on a store whose table has these rows
CallListAll(rows) ==
  Called([NoCall EXCEPT !.fn = "handle_multi_entity_query", !.rows = rows,
                        !.returned = ListAll(rows)])

CallCompare(entity1, entity2, comparison_type) ==
  Called([NoCall EXCEPT !.fn = "_enhanced_compare_entities", !.entity1 = entity1,
                        !.entity2 = entity2, !.comparison_type = comparison_type,
                        !.returned =
                          _enhanced_compare_entities(entity1, entity2, comparison_type)])

(***************************************************************************)
(* Spec: a conversation with the chatbot, of at most MaxAsked queries.     *)
(* SpecLookup: one text sent to a fresh web application, any text of the   *)
(* catalogue with any scores, and the requests that may follow it.         *)
(* SpecService: the web application started on a store in any state, a few *)
(* texts, and the store failing and coming back under it.                  *)
(* SpecCalls: direct calls of the matcher and of the comparison.           *)
(***************************************************************************)
MaxAsked == 3

Next == asked < MaxAsked /\ \E q \in SessionQueries, tmpl \in Templates : ProcessQuery(q, tmpl)

Spec == Init /\ [][Next]_vars

NextLookup ==
  \/ asked = 0 /\ \E q \in Queries, tmpl \in Templates : ChatText(q, tmpl)
  \/ \E number \in Ordinals : ChatNumber(number)
  \/ ChatFails
  \/ ChatEmpty
  \/ NewSession

SpecLookup == Init /\ [][NextLookup]_vars

ServiceFrames == {"who_is", "weapons", "vs"}

ServiceSubjects == {"batman", "batmobile", "zzqx"}

ServiceQueries ==
  {Query(f, a, b, ScoresOf(WRatioOf, a)) :
     f \in ServiceFrames, a \in ServiceSubjects, b \in ServiceSubjects}

InitService == \E db \in StoreStates : Started(db)

NextService ==
  \/ asked < MaxAsked /\ \E q \in ServiceQueries, tmpl \in Templates : ChatText(q, tmpl)
  \/ \E number \in Ordinals : ChatNumber(number)
  \/ ChatFails
  \/ ChatEmpty
  \/ NewSession
  \/ StoreFails
  \/ StoreRestored

SpecService == InitService /\ [][NextService]_vars

\* a call leaves the chatbot as it found it: one call per behaviour covers them
NextCalls ==
  \/ call.fn = "" /\ \E sc \in CallVectors, entity_type \in {""} \cup Range(Kinds),
                         threshold \in Thresholds :
                        CallFindBest(sc, entity_type, threshold)
  \/ call.fn = "" /\ \E sc \in CallVectors, max_results \in ResultLimits,
                         threshold \in Thresholds :
                        CallFindMultiple(sc, max_results, threshold)
  \/ call.fn = "" /\ \E q \in CallTexts : CallClassify(q)
  \/ call.fn = "" /\ \E q \in CallTexts : CallScope(q)
  \/ call.fn = "" /\ \E h \in Histories, q \in FollowupTexts, tmpl \in Templates :
                        CallProcessQuery(h, q, tmpl)
  \/ call.fn = "" /\ \E stored \in StoredLocations : CallLocationQuery(stored)
  \/ call.fn = "" /\ \E entity_id \in {r.id : r \in Range(characters)},
                         relationship_type \in DOMAIN WithoutLastLetter,
                         stored \in StoredRelations :
                        CallFindRelated(entity_id, relationship_type, stored)
  \/ call.fn = "" /\ \E rows \in StoredTables : CallListAll(rows)
  \/ call.fn = "" /\ \E entity1 \in ResolvedEntities, entity2 \in ResolvedEntities,
                         comparison_type \in Range(comparison_patterns) :
                        CallCompare(entity1, entity2, comparison_type)

SpecCalls == Init /\ [][NextCalls]_vars

(***************************************************************************)
(* Properties.  In both specifications last_query # NoQuery says that      *)
(* response is what process_query returned for last_query, and             *)
(* response.raised = "" that it returned rather than raised.               *)
(***************************************************************************)

\* C1: whatever was processed before it, a query gets the query_type, the
\* confidence and the source_entities (or the exception) that a chatbot with
\* an empty conversation history gives the same query
RoutingIgnoresHistory ==
  last_query # NoQuery =>
    \A tmpl \in Templates :
      LET fresh == process_query(<< >>, last_query, tmpl).response
      IN  /\ response.query_type = fresh.query_type
          /\ response.confidence = fresh.confidence
          /\ response.source_entities = fresh.source_entities
          /\ response.raised = fresh.raised

\* C2: a text that contains a denylisted name and no anchor term is answered
\* with query_type out_of_scope and confidence 0, whatever it is routed to
DenylistedIsOutOfScope ==
  (/\ last_query # NoQuery
   /\ HasAny(last_query, non_batman_heroes \cup non_batman_entities)
   /\ ~HasAny(last_query, batman_terms))
    => (response.query_type = "out_of_scope" /\ response.confidence = 0)

\* C3: the confidence of every response process_query returns lies between
\* 0.0 and 1.0
ConfidenceInUnitInterval ==
  (last_query # NoQuery /\ response.raised = "")
    => (0 <= response.confidence /\ response.confidence <= 1000)

\* C3, its case: "what does batman drive" finds the Batmobile with a vehicle
\* score above 100 and answers with confidence 1.0
CappedVehicleAnswer ==
  /\ last_query # NoQuery
  /\ last_query.frame = "what_does_drive" /\ last_query.a = "batman"
  /\ _calculate_vehicle_score("Batmobile", "batman", last_query) > 100
  /\ response.query_type = "vehicle_lookup"
  /\ response.source_entities = << 1 >>
  /\ response.confidence = 1000

\* C4: the query_type of every response process_query returns is one of the
\* sixteen of the fixed vocabulary
QueryTypeInVocabulary ==
  (last_query # NoQuery /\ response.raised = "")
    => response.query_type \in
         {"character_lookup", "vehicle_lookup", "location_lookup", "relationship_query",
          "multi_entity_query", "comparative_analysis", "general_search", "out_of_scope",
          "not_found", "error", "clarification_needed", "weapons", "defenses", "features",
          "specifications", "character_locations"}

\* C5: an in-scope text that none of the resolvers before the classifier
\* answers and that scores below 50 against every name is answered not_found
\* with confidence 0 and no source entities
UnmatchedIsNotFound ==
  (/\ last_query # NoQuery /\ response.raised = ""
   /\ _check_batman_scope(last_query) = "ok"
   /\ process_relationship_query(last_query) = NoResult
   /\ search_multi_entity(last_query).type # "comparison"
   /\ search_by_relationship(last_query) = NoSearchResult
   /\ ~handle_comparative_query(last_query).found
   /\ ~handle_relationship_query(last_query).found
   /\ handle_multi_entity_query(last_query) = << >>
   /\ \A n \in Names : last_query.sc[n] < 50)
    => (/\ response.query_type = "not_found"
        /\ response.confidence = 0
        /\ response.source_entities = << >>)

\* C6: a character answer to a text that matches an alias, and nothing else,
\* names the character that owns the alias as its source entity
AliasAnswersWithOwner ==
  \A i \in DOMAIN character_aliases :
    (/\ last_query # NoQuery /\ response.raised = ""
     /\ response.query_type = "character_lookup" /\ response.source_entities # << >>
     /\ last_query.sc[character_aliases[i].alias] >= 70
     /\ \A n \in Names \ {character_aliases[i].alias} : last_query.sc[n] < 50)
      => response.source_entities = << character_aliases[i].character_id >>

\* C7: a lookup answer to a text that scores in [50,60) against two entities
\* of one kind and below 60 against every name carries at least two
\* suggestions and confidence 0.5
AmbiguousLookupSuggests ==
  (/\ last_query # NoQuery /\ response.raised = ""
   /\ response.query_type \in
        {"character_lookup", "vehicle_lookup", "location_lookup", "general_search"}
   /\ \A n \in Names : last_query.sc[n] < 60
   /\ \E k \in Range(Kinds) : \E i, j \in DOMAIN entity_cache[k] :
        /\ i # j
        /\ last_query.sc[entity_cache[k][i].name] >= 50
        /\ last_query.sc[entity_cache[k][j].name] >= 50)
    => (Len(response.suggestions) >= 2 /\ response.confidence = 500)

\* C8: a lookup answer to a text that scores 70 or more against exactly one
\* cached entity carries no suggestions
SingleMatchHasNoSuggestions ==
  (/\ last_query # NoQuery /\ response.raised = ""
   /\ response.query_type \in
        {"character_lookup", "vehicle_lookup", "location_lookup", "general_search"}
   /\ Cardinality(UNION {{<<k, i>> : i \in {j \in DOMAIN entity_cache[k] :
                                               last_query.sc[entity_cache[k][j].name] >= 70}} :
                         k \in Range(Kinds)}) = 1)
    => response.suggestions = << >>

\* C9: the answer to the number n of an offered option is about the entity
\* that was listed as option n: its kind and its id
SelectionAnswersListedEntity ==
  selection # NoSelection =>
    /\ response.query_type = selection.entity_type
    /\ DirectRow(selection.name).id = selection.entity_id

\* C10: "A vs B", "compare A to B" and "difference between A and B" with A
\* and B both found are answered with query_type comparative_analysis and
\* the ids of both among the source entities
ComparisonIsComparativeAnalysis ==
  (/\ last_query # NoQuery /\ response.raised = ""
   /\ last_query.frame \in {"vs", "compare", "difference"}
   /\ search_single_entity(last_query.a).entity_type # "none"
   /\ search_single_entity(last_query.b).entity_type # "none")
    => (/\ response.query_type = "comparative_analysis"
        /\ {search_single_entity(last_query.a).entity_id,
             search_single_entity(last_query.b).entity_id}
              \subseteq Range(response.source_entities))

\* the entity a weapons question resolves, and the weapon strings the store
\* holds for it as a vehicle
AskedWeaponsOf ==
  IF last_query # NoQuery /\ FrameFacts[last_query.frame].rel[1] = "weapons"
    THEN _find_entity(Slot(last_query, FrameFacts[last_query.frame].rel[2]))
    ELSE NoRow

StoredWeapons(vehicle_id) ==
  {vehicle_weapons[i].weapon : i \in {j \in DOMAIN vehicle_weapons :
                                        vehicle_weapons[j].vehicle_id = vehicle_id}}

UncataloguedVehicleAsked ==
  /\ AskedWeaponsOf.type = "vehicles"
  /\ StoredWeapons(AskedWeaponsOf.id) = {}
  /\ response.raised = ""

\* a weapons question about a character described with a weapon keyword has
\* been answered
ArmedCharacterAsked ==
  /\ AskedWeaponsOf.type = "characters"
  /\ AskedWeaponsOf.name \in DescribedWithWeaponKeyword
  /\ response.raised = ""

\* C12: a query processed while the statements of the store fail is answered
\* with query_type error and confidence 0.0; no exception reaches the caller
StorageFailureAnswersError ==
  [][(asked' = asked + 1 /\ store = "failing")
       => /\ response'.raised = ""
          /\ response'.query_type = "error"
          /\ response'.confidence = 0]_vars

\* C13: a chatbot is never built without its cache: when the store cannot be
\* reached at construction there is no chatbot, and no request is served
ConstructionFailsWithoutStore ==
  /\ conn # "none"
  /\ conn = "open" => entity_cache = _build_entity_cache
  /\ status # 0 => conn = "open"

\* C19: no request changes or rebuilds the entity cache built at startup
CacheNeverRebuilt == [][entity_cache' = entity_cache]_vars

\* the response of the first of the four testers that yields a result, and of
\* the keyword classifier when none does
FirstOfFourTesters(q, tmpl) ==
  IF process_relationship_query(q) # NoResult
    THEN _handle_relationship_processor_result(process_relationship_query(q))
  ELSE IF search_multi_entity(q).type = "comparison"
    THEN _handle_comparison_result(search_multi_entity(q))
  ELSE IF handle_relationship_query(q).found
    THEN RelationshipResponse(handle_relationship_query(q))
  ELSE IF handle_multi_entity_query(q) # << >>
    THEN BatmanResponse("multi_entity_query", 800, handle_multi_entity_query(q),
                        << >>, FALSE, "")
  ELSE Classified(Append6(<< >>, UserEntry(q)), q, tmpl).response

\* C14: the answer to a text is the result of the first of the
\* attribute-relationship tester, the comparison tester, the
\* relationship-by-name tester and the listing tester that yields one, and
\* the answer of the keyword classifier only when none of the four does
TestersInFixedOrder ==
  (last_query # NoQuery /\ asked = 1 /\ response.raised = "")
    => \E tmpl \in Templates : response = FirstOfFourTesters(last_query, tmpl)

\* the cached names a call of find_best_entity_match searches whose similarity
\* reaches the threshold, as <<kind, position>>
InScope(entity_type) ==
  UNION {{<<kind, i>> : i \in DOMAIN entity_cache[kind]} :
           kind \in Range(SearchTypes(entity_type))}

Reaching(sc, entity_type, threshold) ==
  {c \in InScope(entity_type) : sc[entity_cache[c[1]][c[2]].name] >= threshold}

\* C15: find_multiple_entities returns at most max_results matches, in
\* non-increasing order of confidence, each at or above the threshold, and no
\* two of them are the same entity (kind and entity_id), also when a
\* character and one of its aliases both match
MultipleMatchesAreDistinct ==
  call.fn = "find_multiple_entities" =>
    LET matches == call.returned
    IN  /\ Len(matches) <= call.max_results
        /\ \A i \in DOMAIN matches : matches[i].confidence >= call.threshold * 10
        /\ \A i, j \in DOMAIN matches :
             i < j => /\ matches[i].confidence >= matches[j].confidence
                      /\ \/ matches[i].entity_type # matches[j].entity_type
                         \/ matches[i].entity_id # matches[j].entity_id

\* C16: find_best_entity_match returns, among the names in scope whose
\* similarity reaches the threshold, one that maximises similarity plus
\* importance bonus, and reports that name's similarity alone as confidence
BestMatchMaximisesFinalScore ==
  call.fn = "find_best_entity_match" =>
    LET reach == Reaching(call.sc, call.entity_type, call.threshold)
        row(c) == entity_cache[c[1]][c[2]]
        final(c) == call.sc[row(c).name] + _calculate_importance_bonus(row(c).name, c[1])
    IN  reach # {} =>
          \E c \in reach :
            /\ \A d \in reach : final(c) >= final(d)
            /\ call.returned.entity_type = c[1]
            /\ call.returned.confidence = call.sc[row(c).name] * 10
            /\ \E r \in Range(entity_cache[c[1]]) :
                 /\ r.name = row(c).name
                 /\ call.returned.entity_id = r.id

\* C17: for every threshold, find_best_entity_match returns none exactly when
\* no name in scope has a similarity of at least the threshold, and a match
\* it returns has a similarity of at least the threshold
BestMatchHonoursThreshold ==
  call.fn = "find_best_entity_match" =>
    /\ call.returned = NoMatch <=>
         Reaching(call.sc, call.entity_type, call.threshold) = {}
    /\ call.returned # NoMatch => call.returned.confidence >= call.threshold * 10

\* C18: for every pair of resolved entities and every dimension the parser
\* selects (speed, strength, intelligence, size, armor) the comparison
\* returns a winner or none and a confidence; it never raises
ComparisonNeverRaises ==
  call.fn = "_enhanced_compare_entities" =>
    /\ call.returned.raised = ""
    /\ call.returned.winner \in {"", call.entity1.name, call.entity2.name}
    /\ call.returned.confidence \in 0..1000

\* C20: below the confidence gate, a lookup whose loose re-match (threshold
\* 50) leaves exactly one candidate answers with that candidate (its id as
\* the source entity, no suggestions), and one whose re-match leaves no
\* candidate answers that nothing was found
SingleLooseCandidateAnswers ==
  (/\ last_query # NoQuery /\ response.raised = ""
   /\ response.query_type \in {"character_lookup", "general_search"}
   /\ \A n \in Names : last_query.sc[n] < 70)
    => LET ambiguous_result == handle_ambiguous_query(last_query.sc)
       IN  /\ ambiguous_result.type = "single_match" =>
                /\ response.source_entities = << ambiguous_result.matches[1].entity_id >>
                /\ response.suggestions = << >>
           /\ ambiguous_result.type = "no_matches" =>
                /\ response.confidence = 0
                /\ response.source_entities = << >>
                /\ response.suggestions = << >>

\* the keyword sets in the order of the claim, each with its class
KeywordClasses ==
  << <<vehicle_keywords, "vehicle_lookup">>, <<location_keywords, "location_lookup">>,
     <<relationship_keywords, "relationship_query">>, <<sidekick_keywords, "sidekick_lookup">>,
     <<character_keywords, "character_lookup">> >>

NoParseableSpeed(vehicle_id) ==
  \A i \in DOMAIN vehicle_specifications : vehicle_specifications[i].vehicle_id # vehicle_id

\* C22: in a speed comparison of two vehicles, when the speed string of
\* either side holds no parseable number, no winner is declared and the
\* confidence is between 0.5 and 0.6
UnparsedSpeedHasNoWinner ==
  (/\ call.fn = "_enhanced_compare_entities"
   /\ call.comparison_type = "speed"
   /\ call.entity1.entity_type = "vehicles" /\ call.entity2.entity_type = "vehicles"
   /\ NoParseableSpeed(call.entity1.entity_id) \/ NoParseableSpeed(call.entity2.entity_id))
    => /\ call.returned.raised = ""
       /\ call.returned.winner = ""
       /\ call.returned.confidence \in 500..600

\* C23: for a character with several associated locations the answer gives
\* the first location in stored order as primary and enumerates at most 5
\* others; with more than 5 others it states how many are left out
PrimaryAndFiveOtherLocations ==
  (call.fn = "process_location_query" /\ Len(call.stored) > 1) =>
    LET primary == call.returned.explanation.primary_location
        enumerated == Range(call.returned.explanation.joined)
                        \cup Range(call.returned.all_locations.numbered)
        others == Len(call.stored) - 1
    IN  /\ primary = call.stored[1]
        /\ Cardinality(enumerated \ {primary}) <= 5
        /\ others > 5 => call.returned.all_locations.more = others - 5

\* C24: a bulk listing holds at most 10 entities of the requested kind, and
\* its total count is the number of entities of that kind in the store,
\* whatever the size of the store
ListingCountsTheStore ==
  (call.fn = "handle_multi_entity_query" /\ call.returned.found) =>
    /\ Len(call.returned.entities) <= 10
    /\ \A i \in DOMAIN call.returned.entities : call.returned.entities[i] \in Range(call.rows)
    /\ call.returned.total_count = Len(call.rows)

\* C25: every call of process_query returns, whatever the query and the
\* conversation history, and the pronoun follow-up (_handle_character_query
\* -> _handle_contextual_followup -> process_query) has re-entered
\* process_query at most three times when it does.
FollowupRedispatchesAtMostThrice ==
  call.fn = "process_query" =>
    /\ call.returned.nested <= 3
    /\ call.returned.response.query_type # ""

\* a call that re-entered process_query three times
RedispatchedThreeTimes ==
  call.fn = "process_query" /\ call.returned.nested = 3

\* the three shapes of a response
RefusedShape(r) == r.confidence = 0 /\ r.source_entities = << >> /\ r.suggestions = << >>

SuggestingShape(r) == r.confidence = 500 /\ r.source_entities = << >> /\ r.suggestions # << >>

AnsweringShape(r) == r.confidence > 400 /\ r.source_entities # << >> /\ r.suggestions = << >>

\* C26: every response process_query returns has exactly one of three shapes:
\* confidence 0.0 without sources or suggestions; confidence 0.5 without
\* sources and with suggestions; confidence above 0.4 with sources and
\* without suggestions.
ResponseHasOneShape ==
  (last_query # NoQuery /\ response.raised = "")
    => \/ RefusedShape(response)
       \/ SuggestingShape(response)
       \/ AnsweringShape(response)

\* a response that offers suggestions
SuggestionsReturned ==
  last_query # NoQuery /\ response.raised = "" /\ SuggestingShape(response)

\* C27: a numeric reply that selects an option leaves no stored options, and
\* a numeric reply that follows a selection is rejected as an invalid
\* selection (HTTP 400).
SelectionConsumesOptions ==
  [][\A number \in Ordinals :
       ChatNumber(number) =>
         /\ selection'.number # 0 => last_numbered_options' = << >>
         /\ selection.number # 0 => status' = 400]_vars

\* C28: a numeric reply that is out of range (below 1, above the number of
\* stored options, or with none stored) is answered 'Invalid selection'
\* (HTTP 400) without a call of the chatbot, and leaves the stored options,
\* the conversation history and the last mentioned entity as they were.
OutOfRangeIsInvalidSelection ==
  [][\A number \in Ordinals :
       (ChatNumber(number) /\ ~(1 <= number /\ number <= Len(last_numbered_options)))
         => /\ status' = 400
            /\ response' = NoResponse
            /\ UNCHANGED <<last_numbered_options, conversation_history, asked,
                           last_mentioned_entity>>]_vars

\* the relation kind a stored relationship_type belongs to
KindOf == [ally |-> "allies", enemy |-> "enemies", family |-> "family"]

\* C29: every entity returned for a question about the allies, the enemies
\* or the family of a character is related to that character by a relation of
\* the kind asked for: by a stored relation of that kind, or by the
\* predefined table of that kind.
RelatedByTheKindAsked ==
  call.fn = "_find_related_entities" =>
    \A k \in DOMAIN call.returned :
      \/ call.returned[k].relationship = WithoutLastLetter[call.relationship_type]
      \/ \E i \in DOMAIN call.stored :
            /\ call.stored[i].character_id = call.entity_id
            /\ call.stored[i].related_character_id = call.returned[k].id
            /\ KindOf[call.stored[i].relationship_type] = call.relationship_type

\* C30: _check_batman_scope reports a query as not Batman-related only if
\* the query contains a denylisted name and none of the anchor terms: a query
\* that contains an anchor term is never refused.
RefusedOnlyWithoutAnchor ==
  (call.fn = "_check_batman_scope" /\ call.returned # "ok")
    => /\ HasAny(call.text, non_batman_heroes \cup non_batman_entities)
       /\ ~HasAny(call.text, batman_terms)
====
